---- MODULE Spec2Model ----
(***************************************************************************)
(* Element indexing and targeting engine of scripts/browser.js.            *)
(*                                                                         *)
(* The page is a small DOM: a fixed set of node slots arranged in a tree   *)
(* with open shadow roots, of which any subset may be attached.  The       *)
(* in-page scan script (ELEMENTS_JS), the index lookup (deepQueryStamp),   *)
(* ensureIndexed, cmdElements, cmdClick and cmdType are translated step by *)
(* step; every protocol request is a send followed by a reply, and the     *)
(* page may mutate or reload between any two steps.                        *)
(***************************************************************************)
EXTENDS Integers, Sequences, FiniteSets, TLC

(***************************************************************************)
(* Text.  A JavaScript string is a sequence of one-character strings.      *)
(***************************************************************************)
Empty == << >>

Min(a, b) == IF a < b THEN a ELSE b

Max(a, b) == IF a > b THEN a ELSE b

\* String.prototype.slice(from, to) with 0-based, non-negative arguments.
Slice(s, from, to) == SubSeq(s, from + 1, Min(to, Len(s)))

IsSpace(c) == c = " "

RECURSIVE TrimLeft(_)
TrimLeft(s) == IF s # Empty /\ IsSpace(Head(s)) THEN TrimLeft(Tail(s)) ELSE s

RECURSIVE TrimRight(_)
TrimRight(s) ==
  IF s # Empty /\ IsSpace(s[Len(s)]) THEN TrimRight(SubSeq(s, 1, Len(s) - 1)) ELSE s

\* String.prototype.trim()
Trim(s) == TrimRight(TrimLeft(s))

\* s.replace(/\s+/g, ' ')
RECURSIVE CollapseSpaces(_)
CollapseSpaces(s) ==
  IF s = Empty THEN Empty
  ELSE IF IsSpace(Head(s))
       THEN <<" ">> \o CollapseSpaces(TrimLeft(s))
       ELSE <<Head(s)>> \o CollapseSpaces(Tail(s))

\* String.prototype.startsWith(p)
StartsWith(s, p) == Len(s) >= Len(p) /\ SubSeq(s, 1, Len(p)) = p

\* String.prototype.includes(p)
Includes(s, p) ==
  \E i \in 0..(Len(s) - Len(p)) : SubSeq(s, i + 1, i + Len(p)) = p

\* Array.prototype.map over a sequence of nodes is written SeqMap.
SeqMap(Op(_), s) == [i \in 1..Len(s) |-> Op(s[i])]

Range(s) == {s[i] : i \in 1..Len(s)}

\* Program constants of the description builder.
TextMax == 80

ValueMax == 40

HrefMax == 60

HrefKeep == 57

DescMax == 120

Ellipsis == <<".", ".", ".">>

Arrow == <<" ", ">", " ">>

JavascriptScheme == <<"j", "a", "v", "a", "s", "c", "r", "i", "p", "t", ":">>

(***************************************************************************)
(* The DOM.  Slot 0 is the document; the other slots are elements.  A      *)
(* slot's static attributes are those the scripts read.  via = "shadow"    *)
(* places the element in the (open) shadow root of its parent.             *)
(***************************************************************************)
El(tag, parent, via) ==
  [tag |-> tag, parent |-> parent, via |-> via, type |-> "", role |-> "",
   ariaLabel |-> Empty, text |-> Empty, placeholder |-> Empty, name |-> Empty,
   href |-> Empty, disabled |-> FALSE, ariaDisabled |-> FALSE,
   ariaModal |-> FALSE, onclick |-> FALSE, tabindex |-> FALSE,
   contenteditable |-> FALSE, offsetParent |-> TRUE, fixed |-> FALSE,
   shadowRoot |-> FALSE, x |-> 5, y |-> 0]

Go == <<"G", "o">>

UrlA == <<"h", "t", "t", "p", "s", ":", "/", "/", "x", "/", "a">>

\* An accessible name as long as the longest description a scan returns.
LongName == [i \in 1..DescMax |-> "n"]

DOM ==
  << [El("div", 0, "light") EXCEPT !.role = "dialog", !.y = 10],
     [El("button", 1, "light") EXCEPT !.type = "submit", !.text = <<" ">> \o Go, !.y = 20],
     [El("button", 0, "light") EXCEPT !.type = "submit", !.text = Go, !.y = 30],
     [El("c1", 0, "light") EXCEPT !.shadowRoot = TRUE, !.y = 40],
     [El("input", 4, "shadow") EXCEPT !.type = "text", !.name = <<"q">>, !.y = 50],
     [El("c2", 4, "shadow") EXCEPT !.shadowRoot = TRUE, !.y = 55],
     [El("a", 6, "shadow") EXCEPT !.href = UrlA, !.text = <<"A">>, !.y = 60],
     [El("button", 0, "light") EXCEPT !.type = "submit", !.text = <<"H">>,
                                      !.offsetParent = FALSE, !.y = 80],
     [El("div", 0, "light") EXCEPT !.contenteditable = TRUE, !.y = 90],
     [El("button", 6, "shadow") EXCEPT !.type = "submit", !.text = Go, !.y = 65],
     [El("button", 0, "light") EXCEPT !.type = "submit",
                                      !.ariaLabel = LongName \o <<"x">>, !.y = 100],
     [El("button", 0, "light") EXCEPT !.type = "submit",
                                      !.ariaLabel = LongName \o <<"y">>, !.y = 110],
     [El("div", 0, "light") EXCEPT !.role = "dialog", !.y = 120],
     [El("button", 13, "light") EXCEPT !.type = "submit", !.text = Go, !.y = 130],
     [El("input", 0, "light") EXCEPT !.type = "file", !.name = <<"f">>, !.y = 140],
     [El("textarea", 0, "light") EXCEPT !.name = <<"t">>, !.y = 150],
     [El("body", 0, "light") EXCEPT !.onclick = TRUE, !.offsetParent = FALSE,
                                    !.text = <<"B">>, !.y = 160],
     [El("button", 0, "light") EXCEPT !.type = "submit", !.text = <<"F">>,
                                      !.offsetParent = FALSE, !.fixed = TRUE, !.y = 170],
     [El("div", 0, "light") EXCEPT !.role = "presentation", !.y = 180],
     [El("button", 19, "light") EXCEPT !.type = "submit", !.text = Go, !.y = 190],
     [El("div", 0, "light") EXCEPT !.ariaModal = TRUE, !.y = 200],
     [El("button", 21, "light") EXCEPT !.type = "submit", !.text = Go, !.y = 210],
     [El("div", 0, "light") EXCEPT !.role = "dialog", !.offsetParent = FALSE, !.y = 220],
     [El("c3", 13, "light") EXCEPT !.shadowRoot = TRUE, !.y = 230],
     [El("button", 24, "shadow") EXCEPT !.type = "submit", !.text = Go, !.y = 240],
     [El("input", 0, "light") EXCEPT !.type = "text", !.name = <<"r">>, !.y = 250] >>

Nodes == 1..Len(DOM)

Document == 0

NoNode == 0

NoStamp == -1

\* Elements with a .value property that the scripts read back.
FormTags == {"input", "select", "textarea"}

\* Elements whose text can change by typing: form controls hold it in
\* .value, editable-content containers in their textContent.
Editable == {n \in Nodes : DOM[n].tag \in FormTags \/ DOM[n].contenteditable}

VARIABLES
  present,    \* present[n]: the element is attached to its parent
  stamp,      \* stamp[n]: value of the data-bjs-idx attribute, or NoStamp
  hook,       \* window.__bjsDeepQuery is defined
  val,        \* val[n], n editable: .value, or textContent of an editable container
  scroll,     \* vertical scroll offset of the viewport
  focus,      \* the focused element, or NoNode
  selection,  \* the element whose contents are selected, or NoNode
  cmd,        \* the running command (one process invocation)
  wire,       \* protocol messages of the running command, in order
  events,     \* events the page received from the running command, in order
  hist        \* bookkeeping about past scans and page changes (not program state)

vars == <<present, stamp, hook, val, scroll, focus, selection, cmd, wire, events, hist>>

(***************************************************************************)
(* Tree queries.  A root is the document, an element, or the shadow root   *)
(* of a host element.                                                      *)
(***************************************************************************)
DocRoot == <<"doc", Document>>

ElRoot(n) == <<"el", n>>

ShadowRoot(h) == <<"shadow", h>>

Roots == {DocRoot} \cup {ElRoot(n) : n \in Nodes} \cup {ShadowRoot(h) : h \in Nodes}

\* The element slots directly under a root.
Slots(root) ==
  {n \in Nodes :
     CASE root[1] = "doc" -> DOM[n].parent = Document
       [] root[1] = "el" -> DOM[n].parent = root[2] /\ DOM[n].via = "light"
       [] OTHER -> DOM[n].parent = root[2] /\ DOM[n].via = "shadow"}

RECURSIVE SortedSeq(_)
SortedSeq(S) ==
  IF S = {} THEN << >>
  ELSE LET m == CHOOSE x \in S : \A z \in S : x <= z
       IN <<m>> \o SortedSeq(S \ {m})

RECURSIVE Flat(_, _)
Flat(Op(_), s) == IF s = << >> THEN << >> ELSE Op(Head(s)) \o Flat(Op, Tail(s))

\* Tree order of the slots under a root (siblings in slot order), and for
\* each the slots on the way up to the root; both are fixed by DOM.
RECURSIVE SlotOrder(_)
SlotOrder(root) == Flat(LAMBDA c : <<c>> \o SlotOrder(ElRoot(c)), SortedSeq(Slots(root)))

TreeOrder == [r \in Roots |-> SlotOrder(r)]

RECURSIVE PathUp(_, _)
PathUp(root, n) ==
  IF n \in Slots(root) THEN {n} ELSE {n} \cup PathUp(root, DOM[n].parent)

Path == [r \in Roots |-> [n \in Range(TreeOrder[r]) |-> PathUp(r, n)]]

RECURSIVE AncestorsUp(_)
AncestorsUp(n) == IF DOM[n].parent = Document THEN {n} ELSE {n} \cup AncestorsUp(DOM[n].parent)

Ancestors == [n \in Nodes |-> AncestorsUp(n)]

\* root.querySelectorAll('*'): the root's descendants in tree order; never
\* the root itself, never the contents of a shadow root.
QueryAll(root) ==
  SelectSeq(TreeOrder[root], LAMBDA n : \A a \in Path[root][n] : present[a])

\* root.querySelectorAll(selector)
QuerySelectorAll(root, Matches(_)) == SelectSeq(QueryAll(root), Matches)

\* The first of the nodes found directly, else the first found deeper, else
\* null.
FirstOf(found, deep) ==
  IF found # << >> THEN Head(found)
  ELSE IF deep # << >> THEN Head(deep)
  ELSE NoNode

\* root.querySelector(selector)
QuerySelector(root, Matches(_)) == FirstOf(QuerySelectorAll(root, Matches), << >>)

\* el.shadowRoot is non-null
HasShadowRoot(n) == DOM[n].shadowRoot

\* Node.contains: inclusive descendant in the same tree (does not cross a
\* shadow boundary).
Contains(d, n) == n = d \/ n \in Range(QueryAll(ElRoot(d)))

\* The element is in the document (possibly inside nested shadow roots).
InDocumentOf(pr, n) == \A a \in Ancestors[n] : pr[a]

InDocument(n) == InDocumentOf(present, n)

(***************************************************************************)
(* The in-page scan script, ELEMENTS_JS(selector).                         *)
(***************************************************************************)
\* A scoping selector is a type selector (a tag name); NoSelector is the
\* null that cmdElements and ensureIndexed pass for an unscoped scan.
NoSelector == ""

Selectors == {NoSelector, "div", "c1", "nav"}

SelectorMatches(sel, n) == DOM[n].tag = sel

\* The selector list handed to deepQueryAll.
InteractiveRoles ==
  {"button", "link", "tab", "menuitem", "checkbox", "radio", "textbox"}

IsInteractive(n) ==
  \/ DOM[n].tag = "a" /\ DOM[n].href # Empty
  \/ DOM[n].tag \in {"button", "input", "select", "textarea"}
  \/ DOM[n].role \in InteractiveRoles
  \/ DOM[n].onclick
  \/ DOM[n].tabindex
  \/ /\ DOM[n].tag = "summary"
     /\ DOM[n].via = "light"
     /\ DOM[n].parent # Document
     /\ DOM[DOM[n].parent].tag = "details"
  \/ DOM[n].contenteditable

\* deepClearStamps without the descent into shadow roots.
ClearLightOnly(root) == {n \in Range(QueryAll(root)) : stamp[n] # NoStamp}

\* The nodes deepClearStamps(root) strips of their stamp.
RECURSIVE deepClearStamps(_)
deepClearStamps(root) ==
  LET all == QueryAll(root)
  IN {n \in Range(all) : stamp[n] # NoStamp} \cup
     UNION {deepClearStamps(ShadowRoot(h)) : h \in {x \in Range(all) : HasShadowRoot(x)}}

RECURSIVE deepQueryAll(_)
deepQueryAll(root) ==
  LET all == QueryAll(root)
  IN SelectSeq(all, IsInteractive) \o
     Flat(LAMBDA h : deepQueryAll(ShadowRoot(h)), SelectSeq(all, HasShadowRoot))

\* deepQueryStamp(root, idx) reading the stamps st.
RECURSIVE deepQueryStampIn(_, _, _)
deepQueryStampIn(st, root, idx) ==
  FirstOf(SelectSeq(QueryAll(root), LAMBDA n : st[n] = idx),
          SelectSeq(
            SeqMap(LAMBDA h : deepQueryStampIn(st, ShadowRoot(h), idx),
                   SelectSeq(QueryAll(root), HasShadowRoot)),
            LAMBDA r : r # NoNode))

\* deepQueryStamp that stops at the first shadow boundary it enters.
QueryStampOneLevel(root, idx) ==
  FirstOf(SelectSeq(QueryAll(root), LAMBDA n : stamp[n] = idx),
          Flat(LAMBDA h : SelectSeq(QueryAll(ShadowRoot(h)), LAMBDA n : stamp[n] = idx),
               SelectSeq(QueryAll(root), HasShadowRoot)))

deepQueryStamp(root, idx) == deepQueryStampIn(stamp, root, idx)

\* d.offsetParent !== null || getComputedStyle(d).position === 'fixed'
HasBox(n) == DOM[n].offsetParent \/ DOM[n].fixed

IsDialogCandidate(n) ==
  DOM[n].role = "dialog" \/ DOM[n].role = "presentation" \/ DOM[n].ariaModal

IsRealDialog(n) == DOM[n].role = "dialog" \/ DOM[n].ariaModal

Last(s) == s[Len(s)]

\* The last candidate, whatever its role.
LastCandidate(realDialogs, allDialogs) ==
  IF allDialogs # << >> THEN Last(allDialogs) ELSE NoNode

\* (realDialogs.length > 0 ? last of realDialogs : last of allDialogs) || null
LastDialog(realDialogs, allDialogs) ==
  IF realDialogs # << >> THEN Last(realDialogs)
  ELSE IF allDialogs # << >> THEN Last(allDialogs)
  ELSE NoNode

RealDialogs(allDialogs) == SelectSeq(allDialogs, IsRealDialog)

AllDialogs == SelectSeq(QuerySelectorAll(DocRoot, IsDialogCandidate), HasBox)

TopDialogOf(allDialogs) == LastDialog(RealDialogs(allDialogs), allDialogs)

\* topDialog, or NoNode for null.
TopDialog == TopDialogOf(AllDialogs)

\* topDialog && topDialog.contains(n)
InDialog(topDialog, n) == topDialog # NoNode /\ Contains(topDialog, n)

\* The candidates left in the order the walker found them.
SortNone(topDialog, interactive) == interactive

\* [...interactive].sort(by aInDialog - bInDialog): a stable sort on a
\* two-valued key.
SortByDialog(topDialog, interactive) ==
  SelectSeq(interactive, LAMBDA n : InDialog(topDialog, n)) \o
  SelectSeq(interactive, LAMBDA n : ~InDialog(topDialog, n))

\* The visibility test, also skipping a node that already carries a stamp.
IsHiddenOrStamped(n) ==
  \/ ~DOM[n].offsetParent /\ DOM[n].tag # "body" /\ ~DOM[n].fixed
  \/ stamp[n] # NoStamp

\* A visibility test without the exemption of fixed nodes.
IsHiddenFixedToo(n) == ~DOM[n].offsetParent /\ DOM[n].tag # "body"

\* The visibility test that opens the loop body (true: the node is skipped).
IsHidden(n) == ~DOM[n].offsetParent /\ DOM[n].tag # "body" /\ ~DOM[n].fixed

\* el.value of a form control.
Value(n) == IF n \in Editable /\ DOM[n].tag \in FormTags THEN val[n] ELSE Empty

\* el.textContent: the text of the element and of its light descendants.
RECURSIVE TextContent(_)
TextContent(n) ==
  (IF DOM[n].contenteditable THEN val[n] ELSE DOM[n].text) \o
  Flat(LAMBDA c : TextContent(c), SelectSeq(SortedSeq(Slots(ElRoot(n))), LAMBDA c : present[c]))

Label(n) ==
  LET tag == DOM[n].tag
      role == DOM[n].role
      type == DOM[n].type
      base == IF tag = "a" THEN "link"
              ELSE IF tag = "button" \/ role = "button" THEN "button"
              ELSE IF tag = "input" THEN (IF type # "" THEN "input:" \o type ELSE "input")
              ELSE IF tag = "select" THEN "select"
              ELSE IF tag = "textarea" THEN "textarea"
              ELSE IF role = "textbox" THEN "textbox"
              ELSE IF role # "" THEN role
              ELSE tag
  IN IF DOM[n].disabled \/ DOM[n].ariaDisabled THEN base \o ":disabled" ELSE base

\* The first non-empty of the arguments (a || b).
Or(a, b) == IF a # Empty THEN a ELSE b

\* text, value and href of the loop body.
Text(n) == CollapseSpaces(Slice(Trim(TextContent(n)), 0, TextMax))

ShownValue(n) == IF DOM[n].tag \in FormTags THEN Slice(Value(n), 0, ValueMax) ELSE Empty

Href(n) == IF DOM[n].tag = "a" THEN DOM[n].href ELSE Empty

\* if (value && !desc.includes(value)) desc += desc ? ' [' + value + ']' : value
WithValue(desc, value) ==
  IF value # Empty /\ ~Includes(desc, value)
  THEN (IF desc # Empty THEN desc \o <<" ", "[">> \o value \o <<"]">> ELSE value)
  ELSE desc

Short(href) == IF Len(href) > HrefMax THEN Slice(href, 0, HrefKeep) \o Ellipsis ELSE href

\* if (tag === 'a' && href && !href.startsWith('javascript:')) desc += ...
WithHref(desc, href) ==
  IF href # Empty /\ ~StartsWith(href, JavascriptScheme)
  THEN (IF desc # Empty THEN desc \o Arrow \o Short(href) ELSE Short(href))
  ELSE desc

\* desc as built by the loop body, before the final slice.
FullDesc(n) ==
  WithHref(WithValue(Or(DOM[n].ariaLabel, Or(Text(n), Or(DOM[n].placeholder, DOM[n].name))),
                     ShownValue(n)),
           Href(n))

\* One scope for the whole page.
ScopePage(topDialog, n) == "page"

Scope(topDialog, n) == IF InDialog(topDialog, n) THEN "modal" ELSE "page"

DedupKey(topDialog, n) == <<Scope(topDialog, n), Label(n), FullDesc(n)>>

Descriptor(n) == [label |-> Label(n), desc |-> Slice(FullDesc(n), 0, DescMax)]

\* The loop over the sorted candidates: the nodes that survive, in order.
RECURSIVE Survivors(_, _, _)
Survivors(topDialog, sorted, seen) ==
  IF sorted = << >> THEN << >>
  ELSE \* one pass of the loop body for el = Head(sorted), key its de-dup key
       LET Visit(el, key) ==
             IF IsHidden(el) \/ key \in seen
             THEN Survivors(topDialog, Tail(sorted), seen)
             ELSE <<el>> \o Survivors(topDialog, Tail(sorted), seen \cup {key})
       IN Visit(Head(sorted), DedupKey(topDialog, Head(sorted)))

\* A lookup that falls back to the document when nothing matches.
RootOrDocument(r) == IF r = NoNode THEN DocRoot ELSE ElRoot(r)

\* document.querySelector(sel), or the document when sel is null.
RootOf(r) == IF r = NoNode THEN <<"none", NoNode>> ELSE ElRoot(r)

ScanRoot(sel) ==
  IF sel = NoSelector THEN DocRoot
  ELSE RootOf(QuerySelector(DocRoot, LAMBDA n : SelectorMatches(sel, n)))

\* Stamping with the length of the list after the push (1-based).
StampAllFromOne(st, kept) ==
  [n \in Nodes |->
     IF \E i \in 1..Len(kept) : kept[i] = n
     THEN CHOOSE i \in 1..Len(kept) : kept[i] = n
     ELSE st[n]]

\* el.setAttribute('data-bjs-idx', results.length) for each survivor, on
\* top of the stamps st.
StampAll(st, kept) ==
  [n \in Nodes |->
     IF \E i \in 1..Len(kept) : kept[i] = n
     THEN (CHOOSE i \in 1..Len(kept) : kept[i] = n) - 1
     ELSE st[n]]

\* One evaluation of the script: the JSON it returns (error, or the list of
\* descriptors), the nodes behind the descriptors and the stamps it leaves.
\* The stamps once the nodes of gone have lost theirs.
Without(gone) == [n \in Nodes |-> IF n \in gone THEN NoStamp ELSE stamp[n]]

\* The loop over the candidates under root, with topDialog as detected.
Results(topDialog, root) ==
  Survivors(topDialog, SortByDialog(topDialog, deepQueryAll(root)), {})

Listing(cleared, kept) ==
  [error |-> FALSE,
   list |-> SeqMap(Descriptor, kept),
   nodes |-> kept,
   stamp |-> StampAll(cleared, kept)]

\* A script that looks the root up before it clears: a miss leaves the
\* stamps as they are.
ScanUnderLookupFirst(cleared, root) ==
  IF root[1] = "none"
  THEN [error |-> TRUE, list |-> << >>, nodes |-> << >>, stamp |-> stamp]
  ELSE Listing(cleared, Results(TopDialog, root))

ScanUnder(cleared, root) ==
  IF root[1] = "none"
  THEN [error |-> TRUE, list |-> << >>, nodes |-> << >>, stamp |-> cleared]
  ELSE Listing(cleared, Results(TopDialog, root))

ELEMENTS_JS(sel) == ScanUnder(Without(deepClearStamps(DocRoot)), ScanRoot(sel))

(***************************************************************************)
(* Index resolution, as click and type write it:                           *)
(* (window.__bjsDeepQuery && window.__bjsDeepQuery(i))                     *)
(*    || document.querySelector('[data-bjs-idx="i"]')                      *)
(***************************************************************************)
OrNode(a, b) == IF a # NoNode THEN a ELSE b

Resolve(idx) ==
  OrNode(IF hook THEN deepQueryStamp(DocRoot, idx) ELSE NoNode,
         QuerySelector(DocRoot, LAMBDA n : stamp[n] = idx))

\* The nodes of the document that carry a stamp, shadow roots included.
Stamped == {n \in Nodes : InDocument(n) /\ stamp[n] # NoStamp}

(***************************************************************************)
(* Pages and their changes.                                                *)
(***************************************************************************)
\* Bounds of the model.
MaxMuts == 1

MaxScanMuts == 2

MaxIndex == 2

\* The documents a navigation can load: a page whose only controls live in
\* shadow roots and a page with a button and an editable container; for
\* the scan alone also the full page, a page with a single button, a page
\* of two buttons with long accessible names and a page whose dialog
\* follows a page-level button of the same name.
ShadowPage == {4, 5, 6, 7, 10}

LightPage == {3, 9}

FullPage == 1..10

LongPage == {11, 12}

ModalPage == {3, 13, 14}

\* A page with a button, a file input and a textarea.
FilePage == {3, 15, 16}

\* Pages with overlays: a presentation layer alone, one after a dialog,
\* an aria-modal container after a dialog, a dialog that is not rendered
\* alone and after a presentation layer.
OverlayPages == {{3, 19, 20}, {1, 2, 3, 19, 20}, {13, 14, 21, 22}, {3, 23}, {3, 19, 20, 23}}

\* A page with a button and a dialog whose only button is in the shadow
\* root of a component inside the dialog.
ShadowModalPage == {3, 13, 24, 25}

\* A form of a textarea and a text input, either of which the page detaches
\* and attaches again.
TwoFields == {16, 26}

\* A page whose body is itself a candidate, with a button that is not
\* rendered, a fixed one without offset parent and a rendered one.
FloatPage == {3, 8, 17, 18}

Layouts == {ShadowPage, LightPage}

\* The documents navigation leads to.
Sites == {ShadowPage, LightPage, FilePage}

ScanLayouts ==
  {FullPage, ShadowPage, LightPage, {3}, LongPage, ModalPage, FloatPage, ShadowModalPage}
    \cup OverlayPages

\* The elements the page adds and removes while commands run.
Volatile == {5, 9}

NoScan == [sel |-> NoSelector, error |-> FALSE, list |-> << >>, nodes |-> << >>]

NoPrev == [valid |-> FALSE, sel |-> NoSelector, list |-> << >>, nodes |-> << >>]

\* What a page change does to the bookkeeping.
Changed(h) == [h EXCEPT !.fresh = FALSE, !.muts = @ + 1]

\* The page removes an element (with its subtree) from the document.
Remove(n, limit) ==
  /\ hist.muts < limit
  /\ present[n]
  /\ present' = [present EXCEPT ![n] = FALSE]
  /\ focus' = IF focus # NoNode /\ ~InDocumentOf(present', focus) THEN NoNode ELSE focus
  /\ selection' = IF selection # NoNode /\ ~InDocumentOf(present', selection)
                THEN NoNode ELSE selection
  /\ hist' = Changed(hist)
  /\ UNCHANGED <<stamp, hook, val, scroll, cmd, wire, events>>

\* The page inserts an element: a new one (no stamp), or one it had
\* detached earlier, which still carries its attributes.
Insert(n, limit) ==
  /\ hist.muts < limit
  /\ ~present[n]
  /\ present' = [present EXCEPT ![n] = TRUE]
  /\ \E new \in BOOLEAN :
       /\ stamp' = IF new THEN [stamp EXCEPT ![n] = NoStamp] ELSE stamp
       /\ val' = IF new /\ n \in Editable THEN [val EXCEPT ![n] = Empty] ELSE val
  /\ hist' = Changed(hist)
  /\ UNCHANGED <<hook, scroll, focus, selection, cmd, wire, events>>

\* Navigation or reload: a new document and a new window object.
Reload(L, limit) ==
  /\ hist.muts < limit
  /\ present' = [n \in Nodes |-> n \in L]
  /\ stamp' = [n \in Nodes |-> NoStamp]
  /\ hook' = FALSE
  /\ val' = [n \in Editable |-> Empty]
  /\ scroll' = 0
  /\ focus' = NoNode
  /\ selection' = NoNode
  /\ hist' = [Changed(hist) EXCEPT
                !.reloaded = TRUE,
                !.before = {stamp[n] : n \in Stamped}]
  /\ UNCHANGED <<cmd, wire, events>>

\* The page changes at any moment; once the process has ended, the change
\* is taken after the process is gone.
PageChange(S, LL, limit) ==
  /\ cmd.pc # "exit"
  /\ \/ \E n \in S : Remove(n, limit)
     \/ \E n \in S : Insert(n, limit)
     \/ \E L \in LL : Reload(L, limit)

\* The bookkeeping after a scan of selector sel returned r; the scan
\* before it and the stamps it found are kept when track is set.
Scanned(h, sel, r, track) ==
  [h EXCEPT !.fresh = TRUE,
            !.scans = IF track THEN Min(@ + 1, 2) ELSE @,
            !.last = [sel |-> sel, error |-> r.error, list |-> r.list, nodes |-> r.nodes],
            !.prev = IF h.fresh /\ track
                     THEN [valid |-> TRUE, sel |-> h.last.sel, list |-> h.last.list,
                           nodes |-> h.last.nodes]
                     ELSE NoPrev,
            !.old = [n \in Nodes |-> IF InDocument(n) /\ track THEN stamp[n] ELSE NoStamp],
            !.reloaded = FALSE,
            !.before = {},
            !.ever = TRUE,
            \* the scan found stamps and left none, matching nothing
            !.wiped = r.error /\ Stamped # {}]

\* The page evaluates ELEMENTS_JS(sel): line 230 defines the lookup hook,
\* then the stamps are cleared and rewritten.
Evaluated(sel, r, track) ==
  /\ stamp' = r.stamp
  /\ hook' = TRUE
  /\ hist' = Scanned(hist, sel, r, track)
  /\ UNCHANGED <<present, val, scroll, focus, selection>>

EvaluateScan(sel, track) == \E r \in {ELEMENTS_JS(sel)} : Evaluated(sel, r, track)

(***************************************************************************)
(* Geometry and input, as the browser applies them.                        *)
(***************************************************************************)
\* Half the height of the viewport.
ViewportMid == 70

\* The scroll offset after el.scrollIntoView({ block: 'center' }).
ScrollIntoView(n) == Max(0, DOM[n].y - ViewportMid)

\* Centre of el.getBoundingClientRect() under scroll offset sc.
RectCentre(n, sc) == [x |-> DOM[n].x, y |-> DOM[n].y - sc]

\* el.isContentEditable: the element or a light-tree ancestor is editable.
RECURSIVE isContentEditable(_)
isContentEditable(n) ==
  \/ DOM[n].contenteditable
  \/ /\ DOM[n].parent # Document
     /\ DOM[n].via = "light"
     /\ isContentEditable(DOM[n].parent)

\* <input type="file">: it holds a file list, not text.
IsFileInput(n) == DOM[n].tag = "input" /\ DOM[n].type = "file"

\* Elements that take keyboard text when focused.
TakesText(n) ==
  \/ DOM[n].tag \in {"input", "textarea"} /\ ~IsFileInput(n)
  \/ isContentEditable(n)

\* The element a pointer press at point p lands on, if it can be focused.
Topmost(hit) == IF hit = {} THEN NoNode ELSE CHOOSE n \in hit : \A m \in hit : m <= n

HitTest(p) ==
  Topmost({n \in Nodes : InDocument(n) /\ HasBox(n) /\ RectCentre(n, scroll) = p
                         /\ (IsInteractive(n) \/ isContentEditable(n))})

(***************************************************************************)
(* One process invocation: main() runs one command.                        *)
(***************************************************************************)
Texts == {<<"h", "i">>}

\* The longest text a control holds in the model.
MaxLen == 3

NoInfo == [x |-> 0, y |-> 0, label |-> "", desc |-> Empty, tag |-> "", ce |-> FALSE]

NewCmd(name, arg, sel, text) ==
  [name |-> name, arg |-> arg, sel |-> sel, text |-> text, pc |-> "begin",
   inflight |-> FALSE, id |-> 1, opened |-> 0, closed |-> 0, info |-> NoInfo,
   out |-> "", exit |-> -1, k |-> 0,
   \* bookkeeping, not program state
   target |-> NoNode, resolved |-> FALSE, scanned |-> FALSE, checked |-> FALSE,
   unstamped |-> FALSE, missing |-> FALSE, byLatest |-> FALSE, stale |-> FALSE,
   failedAt |-> "", muts0 |-> hist.muts, val0 |-> val, scroll0 |-> scroll,
   focus0 |-> focus, centre |-> [x |-> 0, y |-> 0],
   afterChange |-> FALSE, light |-> FALSE, zero |-> FALSE,
   \* cmdOpen: the address navigated to, whether the page is still loading
   \* and how the wait ended; cmdUpload: the resolved path and the node found
   url |-> Empty, loading |-> FALSE, early |-> FALSE, woke |-> "", absPath |-> Empty,
   nodeId |-> NoNode,
   \* bookkeeping: the stamps the command found, and what cmdUpload injected
   stamp0 |-> stamp, hook0 |-> hook, injected |-> << >>,
   \* the coordinate commands: the arguments as given and as parsed
   argv |-> << >>, xy |-> << >>, double |-> FALSE, right |-> FALSE,
   \* bookkeeping: the command began right after a scan that matched nothing
   afterMiss |-> FALSE,
   \* bookkeeping: the nodes the clearing script and the setter script found
   clearedOn |-> NoNode, setOn |-> NoNode]

Idle ==
  [NewCmd("none", 0, NoSelector, Empty) EXCEPT !.pc = "idle", !.muts0 = 0,
     !.val0 = [n \in Editable |-> Empty], !.scroll0 = 0, !.focus0 = NoNode,
     !.stamp0 = [n \in Nodes |-> NoStamp], !.hook0 = FALSE]


\* The requests a command sends, by control position.
Method(pc) ==
  CASE pc \in {"ensure", "autoscan", "resolve", "select", "clear", "setter", "scan"}
         -> "Runtime.evaluate"
    [] pc \in {"press", "release"} -> "Input.dispatchMouseEvent"
    [] pc \in {"bsDown", "bsUp", "keyDown", "keyUp"} -> "Input.dispatchKeyEvent"
    [] pc = "insert" -> "Input.insertText"
    [] pc \in {"domEnable", "uploadEnable"} -> "DOM.enable"
    [] pc = "navigate" -> "Page.navigate"
    [] pc = "pageEnable" -> "Page.enable"
    [] pc = "front" -> "Page.bringToFront"
    [] pc = "evaluate" -> "Runtime.evaluate"
    [] pc = "getDocument" -> "DOM.getDocument"
    [] pc = "querySelector" -> "DOM.querySelector"
    [] pc = "setFiles" -> "DOM.setFileInputFiles"
    [] pc \in {"xyMove", "xyPress", "xyRelease", "xyPress2", "xyRelease2", "hover",
               "dragMove", "dragPress", "dragStep", "dragRelease"}
         -> "Input.dispatchMouseEvent"
    [] pc = "runtimeEnable" -> "Runtime.enable"
    [] OTHER -> ""

RequestPcs ==
  {"ensure", "autoscan", "resolve", "press", "release", "select", "bsDown", "bsUp",
   "clear", "insert", "keyDown", "keyUp", "setter", "domEnable", "runtimeEnable", "scan",
   "navigate", "pageEnable", "front", "evaluate", "uploadEnable", "getDocument",
   "querySelector", "setFiles",
   "xyMove", "xyPress", "xyRelease", "xyPress2", "xyRelease2", "hover",
   "dragMove", "dragPress", "dragStep", "dragRelease"}

\* The most page tabs the browser has open.
MaxTabs == 1

\* Files on the local disk, and path.resolve() against the working directory.
ExistingFiles == {<<"/", "f">>}

existsSync(path) == path \in ExistingFiles

\* path.resolve(filePath), the working directory being the root.
AbsPath(path) == IF StartsWith(path, <<"/">>) THEN path ELSE <<"/">> \o path

Http == <<"h", "t", "t", "p">>

Https == <<"h", "t", "t", "p", "s", ":", "/", "/">>

\* if (!url.startsWith("http")) url = "https://" + url
NormalUrl(url) == IF StartsWith(url, Http) THEN url ELSE Https \o url

\* The argument checks without the look at the disk.
RefusalUnchecked(name, sel, text) ==
  IF text = Empty /\ name \in {"type", "open", "upload"} THEN "usage"
  ELSE IF name = "eval" /\ sel = "" THEN "usage"
  ELSE ""

\* The message a handler returns on its arguments alone, before it looks
\* for a target; "" when it goes on.
Refusal(name, sel, text) ==
  CASE name \in {"type", "open"} /\ text = Empty -> "usage"
    [] name = "eval" /\ sel = "" -> "usage"
    [] name = "upload" /\ text = Empty -> "usage"
    [] name = "upload" /\ text # Empty /\ ~existsSync(AbsPath(text)) -> "filenotfound"
    [] OTHER -> ""

\* getTargetByIndex(index) for cmdTab, getCurrentTarget() for the others,
\* with tabs page tabs open.
HasTarget(name, arg, tabs) == IF name = "tab" THEN arg < tabs ELSE tabs > 0

\* The first request of each handler.
FirstPc(name) ==
  CASE name = "elements" -> "domEnable"
    [] name \in {"click", "type"} -> "ensure"
    [] name = "open" -> "navigate"
    [] name = "tab" -> "front"
    [] name = "eval" -> "evaluate"
    [] name = "upload" -> "uploadEnable"
    [] name = "click-xy" -> "xyMove"
    [] name = "hover-xy" -> "hover"
    [] name = "drag-xy" -> "dragMove"

\* The command as the handler starts on it.
Started(name, arg, sel, text) ==
  [NewCmd(name, arg, sel, text) EXCEPT
     !.stale = hist.reloaded /\ arg \in hist.before,
     !.afterMiss = hist.fresh /\ hist.last.error,
     !.url = IF name = "open" /\ text # Empty THEN NormalUrl(text) ELSE Empty,
     !.absPath = IF name = "upload" /\ text # Empty THEN AbsPath(text) ELSE Empty]

\* The handler reporting a missing target as a message of its own.
EnteredQuiet(c, refusal, found, connects) ==
  IF refusal # ""
  THEN [c EXCEPT !.pc = "exit", !.out = refusal, !.exit = 0]
  ELSE IF ~found
  THEN [c EXCEPT !.pc = "exit", !.out = "Error", !.exit = 0, !.failedAt = "notarget"]
  ELSE IF ~connects
  THEN [c EXCEPT !.pc = "exit", !.out = "Error", !.exit = 1, !.failedAt = "noconnect"]
  ELSE [c EXCEPT !.opened = 1, !.pc = FirstPc(c.name)]

\* The handler up to its first request, given its refusal, whether a target
\* exists and whether the socket opens.
Entered(c, refusal, found, connects) ==
  IF refusal # ""
  THEN [c EXCEPT !.pc = "exit", !.out = refusal, !.exit = 0]
  ELSE IF ~found \/ ~connects
  THEN [c EXCEPT !.pc = "exit", !.out = "Error", !.exit = 1,
                 !.failedAt = IF found THEN "noconnect" ELSE "notarget"]
  ELSE [c EXCEPT !.opened = 1, !.pc = FirstPc(c.name)]

\* main() dispatches to the handler; the handler checks its arguments, takes
\* its page target and opens the session.
Begin(name, arg, sel, text) ==
  /\ cmd.pc = "idle"
  /\ wire' = << >>
  /\ events' = << >>
  /\ \E tabs \in 0..MaxTabs, connects \in BOOLEAN :
       cmd' = Entered(Started(name, arg, sel, text), Refusal(name, sel, text),
                      HasTarget(name, arg, tabs), connects)
  /\ UNCHANGED <<present, stamp, hook, val, scroll, focus, selection, hist>>

\* A send that does not wait for the previous acknowledgment.
SendAhead ==
  /\ cmd.pc \in RequestPcs
  /\ Len(wire) < 3
  /\ wire' = Append(wire, [dir |-> "send", id |-> cmd.id, what |-> cmd.pc, ok |-> TRUE])
  /\ cmd' = [cmd EXCEPT !.inflight = TRUE, !.id = @ + 1]
  /\ UNCHANGED <<present, stamp, hook, val, scroll, focus, selection, events, hist>>

\* CDPSession.send: the request goes out under the next id.
Send ==
  /\ cmd.pc \in RequestPcs
  /\ ~cmd.inflight
  /\ wire' = Append(wire, [dir |-> "send", id |-> cmd.id, what |-> cmd.pc, ok |-> TRUE])
  /\ cmd' = [cmd EXCEPT !.inflight = TRUE, !.id = @ + 1]
  /\ UNCHANGED <<present, stamp, hook, val, scroll, focus, selection, events, hist>>

Replied(ok) == Append(wire, [dir |-> "reply", id |-> cmd.id - 1, what |-> cmd.pc, ok |-> ok])

\* A rejected request ending the process without the finally block.
ReplyErrorNoFinally ==
  /\ cmd.pc \in RequestPcs
  /\ cmd.pc # "insert"
  /\ cmd.inflight
  /\ wire' = Replied(FALSE)
  /\ cmd' = [cmd EXCEPT !.inflight = FALSE, !.pc = "exit", !.out = "Error",
                        !.exit = 1, !.failedAt = cmd.pc]
  /\ UNCHANGED <<present, stamp, hook, val, scroll, focus, selection, events, hist>>

\* The reply carries an error: send() rejects, the exception leaves the
\* handler through its finally block and main() exits with status 1.
\* (A rejected Input.insertText is caught by cmdType instead.)
ReplyError ==
  /\ cmd.pc \in RequestPcs
  /\ cmd.pc # "insert"
  /\ cmd.inflight
  /\ wire' = Replied(FALSE)
  /\ cmd' = [cmd EXCEPT !.inflight = FALSE, !.pc = "finally", !.out = "Error",
                        !.exit = 1, !.failedAt = cmd.pc]
  /\ UNCHANGED <<present, stamp, hook, val, scroll, focus, selection, events, hist>>

\* finally { cdp.close() }, then the process ends.
Close ==
  /\ cmd.pc = "finally"
  /\ cmd' = [cmd EXCEPT !.closed = @ + 1, !.pc = "exit",
                        !.exit = IF @ = -1 THEN 0 ELSE @]
  /\ UNCHANGED <<present, stamp, hook, val, scroll, focus, selection, wire, events, hist>>

\* The process has ended; nothing of it remains.
Exit ==
  /\ cmd.pc = "exit"
  /\ cmd' = Idle
  /\ wire' = << >>
  /\ events' = << >>
  /\ UNCHANGED <<present, stamp, hook, val, scroll, focus, selection, hist>>

\* A handler returns its message: control passes to the finally block.
Return(c, out) == [c EXCEPT !.inflight = FALSE, !.pc = "finally", !.out = out]

Goto(c, pc) == [c EXCEPT !.inflight = FALSE, !.pc = pc]

(***************************************************************************)
(* cmdElements                                                             *)
(***************************************************************************)
EnableReply ==
  /\ cmd.pc \in {"domEnable", "runtimeEnable"}
  /\ cmd.inflight
  /\ wire' = Replied(TRUE)
  /\ cmd' = Goto(cmd, IF cmd.pc = "domEnable" THEN "runtimeEnable" ELSE "scan")
  /\ UNCHANGED <<present, stamp, hook, val, scroll, focus, selection, events, hist>>

ScanReply ==
  /\ cmd.pc = "scan"
  /\ cmd.inflight
  /\ wire' = Replied(TRUE)
  /\ \E r \in {ELEMENTS_JS(cmd.sel)} :
       /\ Evaluated(cmd.sel, r, FALSE)
       /\ cmd' = Return(cmd, IF r.error THEN "selnotfound"
                             ELSE IF r.list = << >> THEN "nothing"
                             ELSE "list")
  /\ UNCHANGED events

(***************************************************************************)
(* ensureIndexed                                                           *)
(***************************************************************************)
\* The inverted test: re-index exactly when an index is found.
HasNoIndex ==
  ~(\/ QuerySelector(DocRoot, LAMBDA n : stamp[n] # NoStamp) # NoNode
    \/ hook /\ deepQueryStamp(DocRoot, 0) # NoNode)

\* The test for a stamp anywhere in the document, shadow roots included.
HasAnyStamp == Stamped # {}

\* !!(document.querySelector('[data-bjs-idx]')
\*    || (window.__bjsDeepQuery && window.__bjsDeepQuery(0)))
HasIndex ==
  \/ QuerySelector(DocRoot, LAMBDA n : stamp[n] # NoStamp) # NoNode
  \/ hook /\ deepQueryStamp(DocRoot, 0) # NoNode

EnsureReply ==
  /\ cmd.pc = "ensure"
  /\ cmd.inflight
  /\ wire' = Replied(TRUE)
  /\ cmd' = [Goto(cmd, IF HasIndex THEN "resolve" ELSE "autoscan") EXCEPT
               !.checked = TRUE,
               !.unstamped = (Stamped = {}),
               !.missing = (Stamped # {} /\ \A n \in Stamped : stamp[n] # cmd.arg),
               !.afterChange = (hist.ever /\ ~hist.fresh),
               !.light = (\E n \in Stamped : \A a \in Ancestors[n] : DOM[a].via = "light"),
               !.zero = (hook /\ \E n \in Stamped : stamp[n] = 0)]
  /\ UNCHANGED <<present, stamp, hook, val, scroll, focus, selection, events, hist>>

AutoScanReply ==
  /\ cmd.pc = "autoscan"
  /\ cmd.inflight
  /\ wire' = Replied(TRUE)
  /\ EvaluateScan(NoSelector, FALSE)
  /\ cmd' = [Goto(cmd, "resolve") EXCEPT !.scanned = TRUE]
  /\ UNCHANGED events

(***************************************************************************)
(* cmdClick                                                                *)
(***************************************************************************)
\* What a lookup script returns when the index resolves to nothing.
NotFound == [error |-> "notfound", el |-> NoNode, scroll |-> scroll, info |-> NoInfo]

\* What the lookup script of cmdClick returns for el, having left the scroll
\* offset sc and measured the centre c.
ClickMeasured(el, sc, c) ==
  [error |-> "", el |-> el, scroll |-> sc,
   info |-> [NoInfo EXCEPT
      !.x = c.x, !.y = c.y,
      !.label = IF DOM[el].role # "" THEN DOM[el].role ELSE DOM[el].tag,
      !.desc = Slice(Trim(Or(DOM[el].ariaLabel, TextContent(el))), 0, TextMax)]]

ClickScrolled(el, sc) == ClickMeasured(el, sc, RectCentre(el, sc))

\* The body of the lookup script measuring the box before it scrolls.
ClickOnRectFirst(el) ==
  IF el = NoNode THEN NotFound
  ELSE ClickMeasured(el, ScrollIntoView(el), RectCentre(el, scroll))

\* The body of the lookup script of cmdClick once el is looked up.
ClickOn(el) == IF el = NoNode THEN NotFound ELSE ClickScrolled(el, ScrollIntoView(el))

ClickScriptRectFirst(idx) == ClickOnRectFirst(Resolve(idx))

\* The lookup script of cmdClick: the element, the scroll offset it leaves
\* and the JSON it returns.
ClickScript(idx) == ClickOn(Resolve(idx))

\* Bookkeeping when a lookup script has run and found el.
Looked(c, el) ==
  [c EXCEPT !.resolved = TRUE,
            !.target = el,
            !.byLatest = el # NoNode /\ c.arg + 1 <= Len(hist.last.nodes)
                         /\ hist.last.nodes[c.arg + 1] = el,
            !.centre = IF el = NoNode THEN c.centre ELSE RectCentre(el, ScrollIntoView(el))]

\* typeable, as the lookup script of cmdType computes it.
TypeableAlways(n) == TRUE

Typeable(n) ==
  \/ DOM[n].tag = "input"
  \/ DOM[n].tag = "textarea"
  \/ isContentEditable(n)
  \/ DOM[n].role = "textbox"

WrongKind(el, sc) == [error |-> "wrongkind", el |-> el, scroll |-> sc, info |-> NoInfo]

TypeMeasured(el, sc, c) ==
  [error |-> "", el |-> el, scroll |-> sc,
   info |-> [NoInfo EXCEPT !.x = c.x, !.y = c.y, !.tag = DOM[el].tag,
                           !.ce = isContentEditable(el)]]

TypeScrolled(el, sc) == TypeMeasured(el, sc, RectCentre(el, sc))

\* The body of the lookup script scrolling before it checks the kind.
TypeOnScrollFirst(el) ==
  IF el = NoNode THEN NotFound
  ELSE IF ~Typeable(el) THEN WrongKind(el, ScrollIntoView(el))
  ELSE TypeScrolled(el, ScrollIntoView(el))

\* The body of the lookup script of cmdType once el is looked up.
TypeOn(el) ==
  IF el = NoNode THEN NotFound
  ELSE IF ~Typeable(el) THEN WrongKind(el, scroll)
  ELSE TypeScrolled(el, ScrollIntoView(el))

TypeScriptScrollFirst(idx) == TypeOnScrollFirst(Resolve(idx))

\* The lookup script of cmdType.
TypeScript(idx) == TypeOn(Resolve(idx))

ResolveReply ==
  /\ cmd.pc = "resolve"
  /\ cmd.inflight
  /\ wire' = Replied(TRUE)
  /\ \E r \in {IF cmd.name = "click" THEN ClickScript(cmd.arg) ELSE TypeScript(cmd.arg)} :
       /\ scroll' = r.scroll
       /\ cmd' = IF r.error # ""
                 THEN Return(Looked(cmd, r.el), r.error)
                 ELSE [Goto(Looked(cmd, r.el), "press") EXCEPT !.info = r.info]
  /\ UNCHANGED <<present, stamp, hook, val, focus, selection, events, hist>>

MouseEvent(type) ==
  [type |-> type, x |-> cmd.info.x, y |-> cmd.info.y, key |-> "", target |-> NoNode]

\* Input.dispatchMouseEvent mousePressed: the page gets the press; the
\* element under the pointer takes the focus and the selection collapses.
PressReply ==
  /\ cmd.pc = "press"
  /\ cmd.inflight
  /\ wire' = Replied(TRUE)
  /\ events' = Append(events, MouseEvent("mousePressed"))
  /\ focus' = HitTest([x |-> cmd.info.x, y |-> cmd.info.y])
  /\ selection' = NoNode
  /\ cmd' = Goto(cmd, "release")
  /\ UNCHANGED <<present, stamp, hook, val, scroll, hist>>

ReleaseReply ==
  /\ cmd.pc = "release"
  /\ cmd.inflight
  /\ wire' = Replied(TRUE)
  /\ events' = Append(events, MouseEvent("mouseReleased"))
  /\ cmd' = IF cmd.name = "click" THEN Return(cmd, "Clicked")
            ELSE Goto(cmd, IF cmd.info.ce THEN "select" ELSE "clear")
  /\ UNCHANGED <<present, stamp, hook, val, scroll, focus, selection, hist>>

(***************************************************************************)
(* cmdType, after the focusing click                                       *)
(***************************************************************************)
KeyEvent(type, key) == [type |-> type, x |-> 0, y |-> 0, key |-> key, target |-> NoNode]

DomEvent(type, el) == [type |-> type, x |-> 0, y |-> 0, key |-> "", target |-> el]

\* The focused element, if it is in the document and takes text.
TextTarget == IF focus # NoNode /\ InDocument(focus) /\ TakesText(focus) THEN focus ELSE NoNode

\* The values after the browser inserts text t at the caret: the selected
\* contents are replaced, otherwise t is added at the end.
Inserted(t) ==
  IF TextTarget = NoNode THEN val
  ELSE [val EXCEPT ![TextTarget] = IF selection = TextTarget THEN t ELSE @ \o t]

Fits(v) == \A n \in Editable : Len(v[n]) <= MaxLen

\* range.selectNodeContents(el); sel.addRange(range) -- skipped when the
\* index no longer resolves.
SelectReply ==
  /\ cmd.pc = "select"
  /\ cmd.inflight
  /\ wire' = Replied(TRUE)
  /\ selection' = OrNode(Resolve(cmd.arg), selection)
  /\ cmd' = [Goto(cmd, "bsDown") EXCEPT !.clearedOn = Resolve(cmd.arg)]
  /\ UNCHANGED <<present, stamp, hook, val, scroll, focus, events, hist>>

\* Backspace: deletes the selected contents of an editable element, else
\* the last character of the focused text control.
BackspaceDownReply ==
  /\ cmd.pc = "bsDown"
  /\ cmd.inflight
  /\ wire' = Replied(TRUE)
  /\ events' = Append(events, KeyEvent("keyDown", "Backspace"))
  /\ IF selection # NoNode /\ InDocument(selection) /\ isContentEditable(selection)
        /\ selection \in Editable
     THEN val' = [val EXCEPT ![selection] = Empty]
     ELSE IF selection = NoNode /\ TextTarget # NoNode
     THEN val' = [val EXCEPT ![TextTarget] = SubSeq(@, 1, Len(@) - 1)]
     ELSE val' = val
  /\ selection' = NoNode
  /\ cmd' = Goto(cmd, "bsUp")
  /\ UNCHANGED <<present, stamp, hook, scroll, focus, hist>>

BackspaceUpReply ==
  /\ cmd.pc = "bsUp"
  /\ cmd.inflight
  /\ wire' = Replied(TRUE)
  /\ events' = Append(events, KeyEvent("keyUp", "Backspace"))
  /\ cmd' = Goto(cmd, "insert")
  /\ UNCHANGED <<present, stamp, hook, val, scroll, focus, selection, hist>>

\* A clearing script that leaves the value as it is.
ClearReplyKeeps ==
  /\ cmd.pc = "clear"
  /\ cmd.inflight
  /\ wire' = Replied(TRUE)
  /\ cmd' = Goto(cmd, "insert")
  /\ UNCHANGED <<present, stamp, hook, val, scroll, focus, selection, events, hist>>

\* if (el) el.value = '' -- on an element without a value property this
\* only creates a script property nothing here reads.
ClearReply ==
  /\ cmd.pc = "clear"
  /\ cmd.inflight
  /\ wire' = Replied(TRUE)
  /\ \E el \in {Resolve(cmd.arg)} :
       /\ val' = IF el # NoNode /\ DOM[el].tag \in FormTags
                 THEN [val EXCEPT ![el] = Empty] ELSE val
       /\ cmd' = [Goto(cmd, "insert") EXCEPT !.clearedOn = el]
  /\ UNCHANGED <<present, stamp, hook, scroll, focus, selection, events, hist>>

\* The position after the text has been entered.
AfterText(c) == IF c.info.ce THEN Return(c, "Typed") ELSE Goto(c, "setter")

InsertReply ==
  /\ cmd.pc = "insert"
  /\ cmd.inflight
  /\ Fits(Inserted(cmd.text))
  /\ wire' = Replied(TRUE)
  /\ events' = Append(events, KeyEvent("insertText", ""))
  /\ val' = Inserted(cmd.text)
  /\ selection' = NoNode
  /\ cmd' = AfterText(cmd)
  /\ UNCHANGED <<present, stamp, hook, scroll, focus, hist>>

\* catch (_): Input.insertText was rejected; fall back to key events.
InsertRejected ==
  /\ cmd.pc = "insert"
  /\ cmd.inflight
  /\ wire' = Replied(FALSE)
  /\ cmd' = [Goto(cmd, "keyDown") EXCEPT !.k = 1]
  /\ UNCHANGED <<present, stamp, hook, val, scroll, focus, selection, events, hist>>

\* keyDown carrying text: the browser enters the character.
KeyDownReply ==
  /\ cmd.pc = "keyDown"
  /\ cmd.inflight
  /\ Fits(Inserted(<<cmd.text[cmd.k]>>))
  /\ wire' = Replied(TRUE)
  /\ events' = Append(events, KeyEvent("keyDown", cmd.text[cmd.k]))
  /\ val' = Inserted(<<cmd.text[cmd.k]>>)
  /\ selection' = NoNode
  /\ cmd' = Goto(cmd, "keyUp")
  /\ UNCHANGED <<present, stamp, hook, scroll, focus, hist>>

\* A fallback loop that leaves after the first character.
KeyUpReplyOnce ==
  /\ cmd.pc = "keyUp"
  /\ cmd.inflight
  /\ wire' = Replied(TRUE)
  /\ events' = Append(events, KeyEvent("keyUp", cmd.text[cmd.k]))
  /\ cmd' = AfterText(cmd)
  /\ UNCHANGED <<present, stamp, hook, val, scroll, focus, selection, hist>>

KeyUpReply ==
  /\ cmd.pc = "keyUp"
  /\ cmd.inflight
  /\ wire' = Replied(TRUE)
  /\ events' = Append(events, KeyEvent("keyUp", cmd.text[cmd.k]))
  /\ cmd' = IF cmd.k < Len(cmd.text)
            THEN [Goto(cmd, "keyDown") EXCEPT !.k = @ + 1]
            ELSE AfterText(cmd)
  /\ UNCHANGED <<present, stamp, hook, val, scroll, focus, selection, hist>>

\* The value setter of HTMLInputElement.prototype, called on el: it sets
\* the value of an input and throws (inside the page) on anything else and
\* on a file input given a non-empty string, in
\* which case the two notifications are not dispatched; the request itself
\* still resolves.
SetterReply ==
  /\ cmd.pc = "setter"
  /\ cmd.inflight
  /\ wire' = Replied(TRUE)
  /\ \E el \in {Resolve(cmd.arg)} :
       IF el # NoNode /\ ~isContentEditable(el) /\ DOM[el].tag = "input"
          /\ ~IsFileInput(el)
       THEN /\ val' = [val EXCEPT ![el] = cmd.text]
            /\ events' = events \o <<DomEvent("input", el), DomEvent("change", el)>>
       ELSE UNCHANGED <<val, events>>
  /\ cmd' = [Return(cmd, "Typed") EXCEPT !.setOn = Resolve(cmd.arg)]
  /\ UNCHANGED <<present, stamp, hook, scroll, focus, selection, hist>>

(***************************************************************************)
(* cmdOpen                                                                 *)
(***************************************************************************)
Urls == {Empty, <<"a">>, Http \o <<":", "b">>}

\* Page.navigate is acknowledged: the page has committed to the new
\* document L and starts loading it, or the navigation failed (the reply
\* then carries an errorText the handler does not read) and the page stays.
NavigateReply ==
  /\ cmd.pc = "navigate"
  /\ cmd.inflight
  /\ wire' = Replied(TRUE)
  /\ \/ /\ \E L \in Sites : present' = [n \in Nodes |-> n \in L]
        /\ stamp' = [n \in Nodes |-> NoStamp]
        /\ hook' = FALSE
        /\ val' = [n \in Editable |-> Empty]
        /\ scroll' = 0
        /\ focus' = NoNode
        /\ selection' = NoNode
        /\ hist' = [hist EXCEPT !.fresh = FALSE, !.reloaded = TRUE,
                                 !.before = {stamp[n] : n \in Stamped}]
        /\ cmd' = [Goto(cmd, "pageEnable") EXCEPT !.loading = TRUE]
     \/ /\ cmd' = Goto(cmd, "pageEnable")
        /\ UNCHANGED <<present, stamp, hook, val, scroll, focus, selection, hist>>
  /\ UNCHANGED events

\* Page.enable is acknowledged: the handler arms the 10000 ms timer and
\* attaches its listener for Page.loadEventFired.
PageEnableReply ==
  /\ cmd.pc = "pageEnable"
  /\ cmd.inflight
  /\ wire' = Replied(TRUE)
  /\ cmd' = Goto(cmd, "wait")
  /\ UNCHANGED <<present, stamp, hook, val, scroll, focus, selection, events, hist>>

LoadEvent == [dir |-> "event", id |-> 0, what |-> "Page.loadEventFired", ok |-> TRUE]

\* The page finishes loading.  The browser notifies the session only once
\* the Page domain is enabled: a load that ends earlier sends nothing.
PageLoaded ==
  /\ cmd.loading
  /\ cmd.pc \in {"pageEnable", "wait"}
  /\ IF cmd.pc = "wait"
     THEN /\ wire' = Append(wire, LoadEvent)
          /\ cmd' = [Return(cmd, "Navigated") EXCEPT !.loading = FALSE, !.woke = "load"]
     ELSE /\ wire' = wire
          /\ cmd' = [cmd EXCEPT !.loading = FALSE, !.early = TRUE]
  /\ UNCHANGED <<present, stamp, hook, val, scroll, focus, selection, events, hist>>

\* A timer that never fires.
TimeoutNever ==
  /\ cmd.pc = "wait"
  /\ cmd.name = "none"
  /\ UNCHANGED vars

\* setTimeout(resolve, 10000) fires.
Timeout ==
  /\ cmd.pc = "wait"
  /\ cmd' = [Return(cmd, "Navigated") EXCEPT !.woke = "timeout"]
  /\ UNCHANGED <<present, stamp, hook, val, scroll, focus, selection, wire, events, hist>>

(***************************************************************************)
(* cmdTab, cmdEval                                                         *)
(***************************************************************************)
FrontReply ==
  /\ cmd.pc = "front"
  /\ cmd.inflight
  /\ wire' = Replied(TRUE)
  /\ cmd' = Return(cmd, "Switched")
  /\ UNCHANGED <<present, stamp, hook, val, scroll, focus, selection, events, hist>>

\* The expressions given to eval: none, one with a value, one that throws.
Scripts == {"", "1+1", "null.x"}

\* The reply carries exceptionDetails.
Throws(js) == js = "null.x"

EvaluateReply ==
  /\ cmd.pc = "evaluate"
  /\ cmd.inflight
  /\ wire' = Replied(TRUE)
  /\ cmd' = Return(cmd, IF Throws(cmd.sel) THEN "evalError" ELSE "value")
  /\ UNCHANGED <<present, stamp, hook, val, scroll, focus, selection, events, hist>>

(***************************************************************************)
(* cmdUpload                                                               *)
(***************************************************************************)
Paths == {Empty, <<"f">>, <<"/", "f">>, <<"g">>}

UploadSelectors == {NoSelector, "button", "input"}

\* selector || 'input[type="file"]'
CssMatches(sel, n) == IF sel = NoSelector THEN IsFileInput(n) ELSE SelectorMatches(sel, n)

\* The value a file input shows for the file at the absolute path p.
FakePath(p) == <<"C">> \o SubSeq(p, 2, Len(p))

UploadEnableReply ==
  /\ cmd.pc \in {"uploadEnable", "getDocument"}
  /\ cmd.inflight
  /\ wire' = Replied(TRUE)
  /\ cmd' = Goto(cmd, IF cmd.pc = "uploadEnable" THEN "getDocument" ELSE "querySelector")
  /\ UNCHANGED <<present, stamp, hook, val, scroll, focus, selection, events, hist>>

\* The handler once DOM.querySelector answered n.
Queried(c, n) ==
  IF n = NoNode THEN Return(c, "noinput") ELSE [Goto(c, "setFiles") EXCEPT !.nodeId = n]

\* DOM.querySelector from the document node: the light tree only.
QuerySelectorReply ==
  /\ cmd.pc = "querySelector"
  /\ cmd.inflight
  /\ wire' = Replied(TRUE)
  /\ cmd' = Queried(cmd, QuerySelector(DocRoot, LAMBDA n : CssMatches(cmd.sel, n)))
  /\ UNCHANGED <<present, stamp, hook, val, scroll, focus, selection, events, hist>>

\* DOM.setFileInputFiles on a file input: the input takes the file and the
\* page is told.  On any other node the browser rejects the request.
SetFilesReply ==
  /\ cmd.pc = "setFiles"
  /\ cmd.inflight
  /\ IsFileInput(cmd.nodeId)
  /\ wire' = Replied(TRUE)
  /\ val' = [val EXCEPT ![cmd.nodeId] = FakePath(cmd.absPath)]
  /\ events' = events \o <<DomEvent("input", cmd.nodeId), DomEvent("change", cmd.nodeId)>>
  /\ cmd' = [Return(cmd, "Uploaded") EXCEPT
               !.injected = Append(@, [node |-> cmd.nodeId, files |-> <<cmd.absPath>>])]
  /\ UNCHANGED <<present, stamp, hook, scroll, focus, selection, hist>>

(***************************************************************************)
(* The program with its page.                                              *)
(***************************************************************************)
Indices == 0..MaxIndex

InitPage(LL) ==
  /\ present \in {[n \in Nodes |-> n \in L] : L \in LL}
  /\ stamp = [n \in Nodes |-> NoStamp]
  /\ hook = FALSE
  /\ val = [n \in Editable |-> Empty]
  /\ scroll = 0
  /\ focus = NoNode
  /\ selection = NoNode
  /\ wire = << >>
  /\ events = << >>
  /\ hist = [fresh |-> FALSE, scans |-> 0, last |-> NoScan, prev |-> NoPrev,
             old |-> [n \in Nodes |-> NoStamp], muts |-> 0,
             reloaded |-> FALSE, before |-> {}, ever |-> FALSE,
             wiped |-> FALSE]
  /\ cmd = Idle

Init == InitPage(Layouts)

cmdElements ==
  \/ \E sel \in Selectors : Begin("elements", 0, sel, Empty)
  \/ EnableReply
  \/ ScanReply

ensureIndexed == EnsureReply \/ AutoScanReply

cmdClick ==
  \/ \E i \in Indices : Begin("click", i, NoSelector, Empty)
  \/ ResolveReply
  \/ PressReply
  \/ ReleaseReply

cmdType ==
  \/ \E i \in Indices, t \in Texts \cup {Empty} : Begin("type", i, NoSelector, t)
  \/ SelectReply
  \/ BackspaceDownReply
  \/ BackspaceUpReply
  \/ ClearReply
  \/ InsertReply
  \/ InsertRejected
  \/ KeyDownReply
  \/ KeyUpReply
  \/ SetterReply

Next ==
  \/ cmdElements
  \/ ensureIndexed
  \/ cmdClick
  \/ cmdType
  \/ Send
  \/ ReplyError
  \/ Close
  \/ Exit
  \/ PageChange(Volatile, Layouts, MaxMuts)

Spec == Init /\ [][Next]_vars

(***************************************************************************)
(* Every modelled command, on pages that change only by navigation.        *)
(***************************************************************************)
cmdOpen ==
  \/ \E u \in Urls : Begin("open", 0, NoSelector, u)
  \/ NavigateReply
  \/ PageEnableReply
  \/ PageLoaded
  \/ Timeout

cmdTab ==
  \/ \E i \in 0..MaxTabs : Begin("tab", i, NoSelector, Empty)
  \/ FrontReply

cmdEval ==
  \/ \E js \in Scripts : Begin("eval", 0, js, Empty)
  \/ EvaluateReply

cmdUpload ==
  \/ \E f \in Paths, sel \in UploadSelectors : Begin("upload", 0, sel, f)
  \/ UploadEnableReply
  \/ QuerySelectorReply
  \/ SetFilesReply

NextCommands ==
  \/ cmdOpen
  \/ cmdTab
  \/ cmdEval
  \/ cmdUpload
  \/ cmdElements
  \/ ensureIndexed
  \/ cmdClick
  \/ cmdType
  \/ Send
  \/ ReplyError
  \/ Close
  \/ Exit

InitCommands == InitPage(Sites)

SpecCommands == InitCommands /\ [][NextCommands]_vars

\* The form, scanned and typed into while the page detaches and attaches
\* its fields (the form has no editable container: the steps of cmdType
\* for one are never taken).
MaxTypeMuts == 2

NextType ==
  \/ \E sel \in {NoSelector} : Begin("elements", 0, sel, Empty)
  \/ EnableReply
  \/ ScanReply
  \/ ensureIndexed
  \/ \E i \in {0}, t \in Texts : Begin("type", i, NoSelector, t)
  \/ ResolveReply
  \/ PressReply
  \/ ReleaseReply
  \/ ClearReply
  \/ InsertReply
  \/ InsertRejected
  \/ KeyDownReply
  \/ KeyUpReply
  \/ SetterReply
  \/ Send
  \/ ReplyError
  \/ Close
  \/ Exit
  \/ PageChange(TwoFields, {TwoFields}, MaxTypeMuts)

SpecType == InitPage({TwoFields}) /\ [][NextType]_vars

(***************************************************************************)
(* cmdClickXY, cmdHoverXY, cmdDragXY.  An argument is a sequence of        *)
(* characters.  The coordinates of the pointer events these commands       *)
(* dispatch are kept in units of 1/Steps pixel, in which every point of a  *)
(* drag is a whole number.                                                 *)
(***************************************************************************)
\* const steps = 10
Steps == 10

\* What parseFloat returns for an argument that does not start with a number.
NaN == -1

Digits == <<"0", "1", "2", "3", "4", "5", "6", "7", "8", "9">>

IsDigit(c) == \E d \in 1..Len(Digits) : Digits[d] = c

DigitValue(c) == (CHOOSE d \in 1..Len(Digits) : Digits[d] = c) - 1

\* The value of the longest prefix of digits of tok, read after acc.
RECURSIVE ReadDigits(_, _)
ReadDigits(tok, acc) ==
  IF tok = Empty \/ ~IsDigit(Head(tok)) THEN acc
  ELSE ReadDigits(Tail(tok), acc * 10 + DigitValue(Head(tok)))

\* parseFloat(tok), on arguments without sign, point or exponent: the
\* number the argument starts with, whatever follows it.
parseFloat(tok) ==
  IF tok = Empty \/ ~IsDigit(Head(tok)) THEN NaN ELSE ReadDigits(tok, 0)

DoubleFlag == <<"-", "-", "d", "o", "u", "b", "l", "e">>

RightFlag == <<"-", "-", "r", "i", "g", "h", "t">>

\* args.filter(a => !a.startsWith("--"))
Coords(argv) == SelectSeq(argv, LAMBDA a : ~StartsWith(a, <<"-", "-">>))

\* args.includes(flag)
HasFlag(argv, flag) == \E i \in 1..Len(argv) : argv[i] = flag

\* The coordinate arguments a handler looks at: all of click-xy's that are
\* no flags, the first two of hover-xy, the first four of drag-xy.
Given(name, argv) ==
  CASE name = "click-xy" -> SubSeq(Coords(argv), 1, Min(2, Len(Coords(argv))))
    [] name = "hover-xy" -> SubSeq(argv, 1, Min(2, Len(argv)))
    [] name = "drag-xy" -> SubSeq(argv, 1, Min(4, Len(argv)))

Wanted(name) == IF name = "drag-xy" THEN 4 ELSE 2

\* The accepting test taking an argument only when all of it is digits.
RefusalStrict(name, given) ==
  IF Len(given) < Wanted(name) THEN "usage"
  ELSE IF \E i \in 1..Len(given) :
            given[i] = Empty \/ \E j \in 1..Len(given[i]) : ~IsDigit(given[i][j])
  THEN "notnumber"
  ELSE ""

\* if (x === undefined || y === undefined) return usage;
\* if (isNaN(px) || isNaN(py)) return "Error: x and y must be numbers"
RefusalXY(name, given) ==
  IF Len(given) < Wanted(name) THEN "usage"
  ELSE IF \E i \in 1..Len(given) : parseFloat(given[i]) = NaN THEN "notnumber"
  ELSE ""

\* The coordinates as the handler parsed them.
Parsed(given) == [i \in 1..Len(given) |-> parseFloat(given[i])]

StartedXY(name, argv) ==
  [Started(name, 0, NoSelector, Empty) EXCEPT
     !.argv = argv,
     !.xy = Parsed(Given(name, argv)),
     !.double = name = "click-xy" /\ HasFlag(argv, DoubleFlag),
     !.right = name = "click-xy" /\ HasFlag(argv, RightFlag)]

BeginXY(name, argv) ==
  /\ cmd.pc = "idle"
  /\ wire' = << >>
  /\ events' = << >>
  /\ \E tabs \in 0..MaxTabs, connects \in BOOLEAN :
       cmd' = Entered(StartedXY(name, argv), RefusalXY(name, Given(name, argv)),
                      HasTarget(name, 0, tabs), connects)
  /\ UNCHANGED <<present, stamp, hook, val, scroll, focus, selection, hist>>

\* One Input.dispatchMouseEvent of a coordinate command, x and y in pixels.
Pointer(type, x, y, button, count) ==
  [type |-> type, x |-> x * Steps, y |-> y * Steps, button |-> button, clickCount |-> count]

Button(c) == IF c.right THEN "right" ELSE "left"

ClickCount(c) == IF c.double THEN 2 ELSE 1

\* A move that also removes the stamps of the page.
MoveReplyClearing ==
  /\ cmd.pc \in {"xyMove", "hover", "dragMove"}
  /\ cmd.inflight
  /\ wire' = Replied(TRUE)
  /\ events' = Append(events, Pointer("mouseMoved", cmd.xy[1], cmd.xy[2], "none", 0))
  /\ stamp' = [n \in Nodes |-> NoStamp]
  /\ cmd' = CASE cmd.pc = "xyMove" -> Goto(cmd, "xyPress")
              [] cmd.pc = "hover" -> Return(cmd, "Hovered")
              [] cmd.pc = "dragMove" -> Goto(cmd, "dragPress")
  /\ UNCHANGED <<present, hook, val, scroll, focus, selection, hist>>

\* mouseMoved to the first point: nothing in the modelled page reacts.
MoveReply ==
  /\ cmd.pc \in {"xyMove", "hover", "dragMove"}
  /\ cmd.inflight
  /\ wire' = Replied(TRUE)
  /\ events' = Append(events, Pointer("mouseMoved", cmd.xy[1], cmd.xy[2], "none", 0))
  /\ cmd' = CASE cmd.pc = "xyMove" -> Goto(cmd, "xyPress")
              [] cmd.pc = "hover" -> Return(cmd, "Hovered")
              [] cmd.pc = "dragMove" -> Goto(cmd, "dragPress")
  /\ UNCHANGED <<present, stamp, hook, val, scroll, focus, selection, hist>>

\* mousePressed at the point: the element under it takes the focus.
XYPressReply ==
  /\ cmd.pc \in {"xyPress", "xyPress2"}
  /\ cmd.inflight
  /\ wire' = Replied(TRUE)
  /\ events' = Append(events, Pointer("mousePressed", cmd.xy[1], cmd.xy[2], Button(cmd),
                                      IF cmd.pc = "xyPress2" THEN 2 ELSE ClickCount(cmd)))
  /\ focus' = HitTest([x |-> cmd.xy[1], y |-> cmd.xy[2]])
  /\ selection' = NoNode
  /\ cmd' = Goto(cmd, IF cmd.pc = "xyPress" THEN "xyRelease" ELSE "xyRelease2")
  /\ UNCHANGED <<present, stamp, hook, val, scroll, hist>>

ClickedLabel(c) ==
  IF c.double THEN "Double-clicked" ELSE IF c.right THEN "Right-clicked" ELSE "ClickedAt"

XYReleaseReply ==
  /\ cmd.pc \in {"xyRelease", "xyRelease2"}
  /\ cmd.inflight
  /\ wire' = Replied(TRUE)
  /\ events' = Append(events, Pointer("mouseReleased", cmd.xy[1], cmd.xy[2], Button(cmd),
                                      IF cmd.pc = "xyRelease2" THEN 2 ELSE ClickCount(cmd)))
  /\ cmd' = IF cmd.pc = "xyRelease" /\ cmd.double THEN Goto(cmd, "xyPress2")
            ELSE Return(cmd, ClickedLabel(cmd))
  /\ UNCHANGED <<present, stamp, hook, val, scroll, focus, selection, hist>>

DragPressReply ==
  /\ cmd.pc = "dragPress"
  /\ cmd.inflight
  /\ wire' = Replied(TRUE)
  /\ events' = Append(events, Pointer("mousePressed", cmd.xy[1], cmd.xy[2], "left", 1))
  /\ focus' = HitTest([x |-> cmd.xy[1], y |-> cmd.xy[2]])
  /\ selection' = NoNode
  /\ cmd' = [Goto(cmd, "dragStep") EXCEPT !.k = 1]
  /\ UNCHANGED <<present, stamp, hook, val, scroll, hist>>

\* The steps counted from 0.
StepPointEarly(s, e, i) == s * Steps + (e - s) * (i - 1)

\* sx + (ex - sx) * (i / steps), in units of 1/Steps pixel.
StepPoint(s, e, i) == s * Steps + (e - s) * i

StepEvent(c) ==
  [type |-> "mouseMoved", x |-> StepPoint(c.xy[1], c.xy[3], c.k),
   y |-> StepPoint(c.xy[2], c.xy[4], c.k), button |-> "left", clickCount |-> 0]

DragStepReply ==
  /\ cmd.pc = "dragStep"
  /\ cmd.inflight
  /\ wire' = Replied(TRUE)
  /\ events' = Append(events, StepEvent(cmd))
  /\ cmd' = IF cmd.k < Steps THEN [Goto(cmd, "dragStep") EXCEPT !.k = @ + 1]
            ELSE Goto(cmd, "dragRelease")
  /\ UNCHANGED <<present, stamp, hook, val, scroll, focus, selection, hist>>

DragReleaseReply ==
  /\ cmd.pc = "dragRelease"
  /\ cmd.inflight
  /\ wire' = Replied(TRUE)
  /\ events' = Append(events, Pointer("mouseReleased", cmd.xy[3], cmd.xy[4], "left", 1))
  /\ cmd' = Return(cmd, "Dragged")
  /\ UNCHANGED <<present, stamp, hook, val, scroll, focus, selection, hist>>

\* The arguments given to the coordinate commands.
CoordArgs == {<<"5">>, <<"3", "0">>, <<"5", "p">>, <<"a">>}

ClickArgs ==
  {<< >>, <<RightFlag>>} \cup
  {<<x>> : x \in CoordArgs} \cup
  {<<x, y>> \o f : x \in {<<"5">>, <<"5", "p">>, <<"a">>},
                   y \in {<<"3", "0">>, <<"a">>},
                   f \in {<< >>, <<DoubleFlag>>, <<RightFlag>>, <<RightFlag, DoubleFlag>>}} \cup
  {<<DoubleFlag, <<"5">>, <<"3", "0">> >>}

HoverArgs == {<< >>, << <<"5">>, <<"3", "0">> >>, << <<"5">>, <<"a">> >>, << <<"5">>, RightFlag >>}

DragArgs ==
  {<< <<"5">>, <<"3", "0">>, <<"5">> >>,
   << <<"5">>, <<"3", "0">>, <<"3", "0">>, <<"5">> >>,
   << <<"5">>, <<"3", "0">>, <<"5">>, <<"9", "0">> >>,
   << <<"5">>, <<"3", "0">>, <<"a">>, <<"9", "0">> >>}

cmdClickXY ==
  \/ \E argv \in ClickArgs : BeginXY("click-xy", argv)
  \/ XYPressReply
  \/ XYReleaseReply

cmdHoverXY ==
  \/ \E argv \in HoverArgs : BeginXY("hover-xy", argv)
  \/ MoveReply

cmdDragXY ==
  \/ \E argv \in DragArgs : BeginXY("drag-xy", argv)
  \/ DragPressReply
  \/ DragStepReply
  \/ DragReleaseReply

NextXY ==
  \/ cmdClickXY
  \/ cmdHoverXY
  \/ cmdDragXY
  \/ cmdElements
  \/ Send
  \/ ReplyError
  \/ Close
  \/ Exit

SpecXY == InitCommands /\ [][NextXY]_vars

(***************************************************************************)
(* CDPSession alone: requests go out at any moment, and the peer sends     *)
(* replies with any id, with or without an error, and event notifications  *)
(* in any order.                                                           *)
(***************************************************************************)
MaxRequests == 2

MaxMessages == 3

\* An event notification carries no id.
NoId == 0

\* this.id = 1; this.pending = new Map(); settled logs how the promises
\* of send() ended and the position on the wire of the message that did it.
NewSession == [name |-> "session", pc |-> "open", id |-> 1, pending |-> {}, settled |-> << >>]

SessionSend ==
  /\ cmd.id <= MaxRequests
  /\ wire' = Append(wire, [dir |-> "send", id |-> cmd.id, what |-> "request", ok |-> TRUE])
  /\ cmd' = [cmd EXCEPT !.id = @ + 1, !.pending = @ \cup {cmd.id}]
  /\ UNCHANGED <<present, stamp, hook, val, scroll, focus, selection, events, hist>>

\* A test that takes every message with an id.
SettlesAny(ses, msg) == msg.id # NoId

\* msg.id && this.pending.has(msg.id)
Settles(ses, msg) == msg.id # NoId /\ msg.id \in ses.pending

\* The message handler on msg, which takes position at on the wire.
Delivered(ses, msg, at) ==
  IF Settles(ses, msg)
  THEN [ses EXCEPT !.pending = @ \ {msg.id},
                   !.settled = Append(@, [id |-> msg.id, by |-> at,
                                          how |-> IF msg.ok THEN "resolved" ELSE "rejected"])]
  ELSE ses

OnMessage(msg) ==
  /\ Len(SelectSeq(wire, LAMBDA m : m.dir # "send")) < MaxMessages
  /\ wire' = Append(wire, msg)
  /\ cmd' = Delivered(cmd, msg, Len(wire) + 1)
  /\ UNCHANGED <<present, stamp, hook, val, scroll, focus, selection, events, hist>>

SessionReply ==
  \E id \in 1..(MaxRequests + 1), ok \in BOOLEAN :
    OnMessage([dir |-> "reply", id |-> id, what |-> "request", ok |-> ok])

SessionEvent == OnMessage(LoadEvent)

NextSession == SessionSend \/ SessionReply \/ SessionEvent

InitSession ==
  /\ present = [n \in Nodes |-> n \in LightPage]
  /\ stamp = [n \in Nodes |-> NoStamp]
  /\ hook = FALSE
  /\ val = [n \in Editable |-> Empty]
  /\ scroll = 0
  /\ focus = NoNode
  /\ selection = NoNode
  /\ wire = << >>
  /\ events = << >>
  /\ hist = [fresh |-> FALSE, scans |-> 0, last |-> NoScan, prev |-> NoPrev,
             old |-> [n \in Nodes |-> NoStamp], muts |-> 0,
             reloaded |-> FALSE, before |-> {}, ever |-> FALSE,
             wiped |-> FALSE]
  /\ cmd = NewSession

SpecSession == InitSession /\ [][NextSession]_vars

(***************************************************************************)
(* cmdOpen with its timer: a timer that is armed fires, and the finally    *)
(* block runs once the handler returns.                                    *)
(***************************************************************************)
NextOpen ==
  \/ cmdOpen
  \/ cmdElements
  \/ Send
  \/ ReplyError
  \/ Close
  \/ Exit

SpecOpen == InitCommands /\ [][NextOpen]_vars /\ WF_vars(Timeout) /\ WF_vars(Close)

(***************************************************************************)
(* The scan script alone, run on pages that change between runs.           *)
(***************************************************************************)
RunScan == \E sel \in Selectors : EvaluateScan(sel, TRUE) /\ UNCHANGED <<cmd, wire, events>>

NextScan == RunScan \/ PageChange(FullPage, ScanLayouts, MaxScanMuts)

InitScan == InitPage(ScanLayouts)

SpecScan == InitScan /\ [][NextScan]_vars

(***************************************************************************)
(* Properties of the scan.  hist.fresh marks the state a scan leaves,      *)
(* before the page changes again; hist.last is what that scan returned,    *)
(* hist.old the stamps it found in the document.                           *)
(***************************************************************************)

\* C1: after a scan that returns n descriptors, resolving index i (the
\* lookup click and type use) yields the node whose descriptor is at
\* position i, for every i in 0..n-1, and no two indices resolve to the
\* same node.
StampConsistency ==
  (hist.fresh /\ ~hist.last.error) =>
    LET nodes == hist.last.nodes
    IN /\ Len(hist.last.list) = Len(nodes)
       /\ \A i \in 1..Len(nodes) :
            /\ Resolve(i - 1) = nodes[i]
            /\ hist.last.list[i] = Descriptor(nodes[i])
       /\ \A i, j \in 1..Len(nodes) : i # j => Resolve(i - 1) # Resolve(j - 1)

\* A scan of the full page: controls in the light tree, one and two shadow
\* levels deep, with a hidden one and a duplicate skipped.
StampConsistencyWitness ==
  /\ hist.fresh
  /\ \A n \in FullPage : present[n]
  /\ hist.last.nodes = <<2, 3, 9, 5, 7>>
  /\ Resolve(4) = 7

\* C2: once a scan completes, the nodes carrying a stamp in the document
\* and in every nested shadow root are exactly the nodes that scan listed;
\* no node keeps a stamp written by an earlier scan.
OnlyLatestStamps == hist.fresh => Stamped = Range(hist.last.nodes)

\* A scoped or failed scan after a page change, on a document that held
\* stamps of an earlier scan two shadow levels deep.
OnlyLatestStampsWitness ==
  /\ hist.fresh
  /\ hist.muts > 0
  /\ hist.last.sel # NoSelector
  /\ InDocument(7) /\ hist.old[7] # NoStamp /\ stamp[7] = NoStamp
  /\ InDocument(3) /\ hist.old[3] # NoStamp

\* C3: the stamps a scan writes are exactly 0..n-1, n the length of the
\* returned list, without gap or repeat, also when candidates are skipped
\* as hidden or duplicate; a later scan numbers from 0 again whatever the
\* earlier assignment was.
DenseIndices ==
  hist.fresh =>
    LET n == Len(hist.last.list)
    IN /\ {stamp[x] : x \in Stamped} = 0..(n - 1)
       /\ Cardinality(Stamped) = n
       /\ \A i \in 1..Len(hist.last.nodes) : stamp[hist.last.nodes[i]] = i - 1

\* A second scan, after a removal, that skips a hidden and a duplicate
\* candidate and gives a node another index than it had.
DenseIndicesWitness ==
  /\ hist.fresh
  /\ hist.scans > 1
  /\ InDocument(8) /\ InDocument(3) /\ InDocument(10)
  /\ Len(hist.last.list) > 2
  /\ \E n \in Stamped : hist.old[n] # NoStamp /\ hist.old[n] # stamp[n]

\* C10: two scans in succession (same selector) of a page that does not
\* change in between return the same list, element by element, and give
\* every node the same index; the stamps of the first do not influence the
\* second.
ScanIdempotent ==
  (hist.fresh /\ hist.prev.valid /\ hist.prev.sel = hist.last.sel) =>
    /\ hist.last.list = hist.prev.list
    /\ hist.last.nodes = hist.prev.nodes
    /\ \A n \in Nodes : InDocument(n) => stamp[n] = hist.old[n]

ScanIdempotentWitness ==
  /\ hist.fresh /\ hist.prev.valid /\ hist.prev.sel = hist.last.sel
  /\ Len(hist.last.list) > 3
  /\ \E n \in Stamped : DOM[n].via = "shadow"

\* C11, as claimed: no scan result holds two entries with the same scope,
\* the same label and the same description as returned; of the candidates
\* sharing such a combination the first in sorted order is kept and stamped
\* and the others receive no stamp.
NoDuplicateEntries ==
  (hist.fresh /\ ~hist.last.error) =>
    /\ \A i, j \in 1..Len(hist.last.nodes) :
         (/\ i # j
          /\ Scope(TopDialog, hist.last.nodes[i]) = Scope(TopDialog, hist.last.nodes[j]))
           => hist.last.list[i] # hist.last.list[j]
    /\ \A n, m \in Nodes :
         (/\ n # m /\ n \in Range(hist.last.nodes) /\ InDocument(m)
          /\ Scope(TopDialog, n) = Scope(TopDialog, m)
          /\ Descriptor(n) = Descriptor(m)) => stamp[m] = NoStamp

\* Position of n in the sequence found.
Pos(found, n) == CHOOSE k \in 1..Len(found) : found[k] = n

DialogFirstIn(topDialog, nodes, found) ==
  \A i, j \in 1..Len(nodes) :
    /\ (InDialog(topDialog, nodes[i]) /\ ~InDialog(topDialog, nodes[j])) => i < j
    /\ (/\ i < j
        /\ InDialog(topDialog, nodes[i]) = InDialog(topDialog, nodes[j]))
         => Pos(found, nodes[i]) < Pos(found, nodes[j])

\* C12: in every scan result the entries whose node the resolved dialog
\* contains come before all the others, and within each of the two groups
\* the entries keep the order in which the walker found them.
DialogFirst ==
  (hist.fresh /\ ~hist.last.error) =>
    DialogFirstIn(TopDialog, hist.last.nodes, deepQueryAll(ScanRoot(hist.last.sel)))

\* A page whose dialog follows a page-level button: the button inside the
\* dialog is found second and listed first.
DialogFirstWitness ==
  /\ hist.fresh
  /\ hist.last.nodes = <<14, 3>>
  /\ deepQueryAll(DocRoot) = <<3, 14>>

SameLook(a, b) == Label(a) = Label(b) /\ FullDesc(a) = FullDesc(b)

BothScopesListedIn(topDialog, nodes, found) ==
  \A d, p \in Range(found) :
    (/\ ~IsHidden(d) /\ ~IsHidden(p)
     /\ InDialog(topDialog, d) /\ ~InDialog(topDialog, p)
     /\ SameLook(d, p)) =>
      /\ \E i \in 1..Len(nodes) :
           /\ InDialog(topDialog, nodes[i]) /\ SameLook(nodes[i], d)
           /\ stamp[nodes[i]] = i - 1
      /\ \E j \in 1..Len(nodes) :
           /\ ~InDialog(topDialog, nodes[j]) /\ SameLook(nodes[j], p)
           /\ stamp[nodes[j]] = j - 1

\* C13: when a visible control inside the topmost dialog and a visible
\* page-level control have the same label and description, the result
\* lists and stamps an entry for each scope; de-duplication never merges
\* the two.
BothScopesListed ==
  (hist.fresh /\ ~hist.last.error) =>
    BothScopesListedIn(TopDialog, hist.last.nodes, deepQueryAll(ScanRoot(hist.last.sel)))

BothScopesListedWitness ==
  /\ hist.fresh
  /\ TopDialog = 13
  /\ SameLook(14, 3)
  /\ stamp[14] = 0 /\ stamp[3] = 1

\* n lies under the root, shadow roots of any depth included.
Under(root, n) == root[1] = "doc" \/ (root[2] # n /\ root[2] \in Ancestors[n])

WalkedAll(root, found) ==
  /\ \A n \in Nodes :
       (InDocument(n) /\ IsInteractive(n) /\ Under(root, n)) => n \in Range(found)
  /\ \A i, j \in 1..Len(found) : i # j => found[i] # found[j]

\* C14, as claimed: the walker returns, each exactly once, every node that
\* matches the interactive selectors in the root's subtree and in every
\* open shadow root reachable from the root, at any nesting depth.
WalkerReachesAll ==
  (hist.fresh /\ ~hist.last.error) =>
    WalkedAll(ScanRoot(hist.last.sel), deepQueryAll(ScanRoot(hist.last.sel)))

(***************************************************************************)
(* Properties of click and type.  cmd.stale: the index was stamped, the    *)
(* page was then reloaded and nothing has scanned it since.  cmd.missing:  *)
(* when the command checked for stamps, some node was stamped but none     *)
(* with the index.  Undisturbed: the page has not changed since the        *)
(* command began.                                                          *)
(***************************************************************************)
Interacting == cmd.name \in {"click", "type"}

Finished == cmd.pc = "exit"

Undisturbed == hist.muts = cmd.muts0

InputPcs == {"press", "release", "bsDown", "bsUp", "insert", "keyDown", "keyUp"}

\* The protocol messages of the command that concern the given requests.
Traffic(pcs) == SelectSeq(wire, LAMBDA m : m.what \in pcs)

\* C4, as claimed: after index i was stamped and the page reloaded, click i
\* or type i reports index-not-found and dispatches no input event.  (Runs
\* that end in a transport error, a usage message or a wrong-element-kind
\* report dispatch nothing either and are not held against the claim.)
StaleIndexNotFound ==
  (Interacting /\ Finished /\ cmd.stale /\ cmd.out \notin {"Error", "usage", "wrongkind"}) =>
    (cmd.out = "notfound" /\ events = << >>)

\* C4, amended: after index i was stamped and the page reloaded, click i or
\* type i first re-indexes the reloaded page; it reports index-not-found and
\* dispatches nothing when no node carries index i then, and otherwise acts
\* on the node the new scan gave index i.
StaleIndexReindexed ==
  (Interacting /\ cmd.stale /\ cmd.resolved) =>
    /\ cmd.scanned
    /\ cmd.target = NoNode => (cmd.out = "notfound" /\ events = << >>)
    /\ cmd.target # NoNode => cmd.byLatest

StaleIndexReindexedWitness ==
  /\ Interacting /\ Finished /\ cmd.stale
  /\ cmd.out = "notfound"
  /\ cmd.scanned
  /\ Stamped # {}

\* C5: a click or type issued when no stamped node exists anywhere runs an
\* unscoped scan before it resolves its index; click 0 without a prior scan
\* on a page with exactly one qualifying button succeeds and targets it.
AutoIndexFirst ==
  /\ (Interacting /\ cmd.checked /\ cmd.unstamped) =>
       /\ \/ cmd.pc = "autoscan"
          \/ cmd.scanned
          \/ cmd.failedAt = "autoscan"
       /\ cmd.scanned => hist.last.sel = NoSelector
       /\ \A p \in 1..Len(wire) :
            wire[p].what = "resolve" =>
              \E q \in 1..(p - 1) :
                wire[q].what = "autoscan" /\ wire[q].dir = "reply" /\ wire[q].ok
  /\ (/\ cmd.name = "click" /\ cmd.arg = 0 /\ Finished /\ cmd.out # "Error"
      /\ cmd.unstamped /\ Undisturbed
      /\ \E b \in Nodes :
           /\ DOM[b].tag = "button"
           /\ {n \in Nodes : InDocument(n) /\ IsInteractive(n) /\ HasBox(n)} = {b}) =>
       /\ cmd.out = "Clicked"
       /\ DOM[cmd.target].tag = "button"
       /\ InDocument(cmd.target)

AutoIndexFirstWitness ==
  /\ cmd.name = "click" /\ cmd.arg = 0 /\ Finished /\ cmd.unstamped /\ Undisturbed
  /\ {n \in Nodes : InDocument(n)} = {3}
  /\ cmd.out = "Clicked"
  /\ cmd.target = 3

\* C6, as claimed: when stamps exist but no node carries stamp i, click i
\* and type i return the not-found message and act on no node.  (Runs that
\* end in a transport error or a wrong-element-kind report dispatch nothing
\* and are not held against the claim.)
MissingIndexNotFound ==
  (/\ Interacting /\ Finished /\ cmd.missing /\ Undisturbed
   /\ cmd.out \notin {"Error", "wrongkind"}) =>
    (cmd.out = "notfound" /\ events = << >> /\ cmd.target = NoNode)

\* C7: type on an index whose node is not an input, a textarea, a
\* role=textbox element or an editable container returns the
\* wrong-element-kind message, dispatches no pointer or key event and no
\* text insertion, and changes no value.
TypeRejectsNonText ==
  (/\ cmd.name = "type" /\ cmd.resolved /\ cmd.target # NoNode
   /\ DOM[cmd.target].tag \notin {"input", "textarea"}
   /\ DOM[cmd.target].role # "textbox"
   /\ ~isContentEditable(cmd.target)) =>
    /\ cmd.out = "wrongkind"
    /\ events = << >>
    /\ Traffic(InputPcs \cup {"select", "clear", "setter"}) = << >>
    /\ Undisturbed => val = cmd.val0

TypeRejectsNonTextWitness ==
  /\ cmd.name = "type" /\ Finished /\ cmd.out = "wrongkind"
  /\ DOM[cmd.target].tag = "button"
  /\ \E n \in Editable : InDocument(n)

Failed == cmd.out \in {"notfound", "wrongkind", "Error"}

\* C8, as claimed: whenever a click or type fails, at whatever step, the
\* page has received no input event and no value change from it.
FailureLeavesNoEffect ==
  (Interacting /\ Finished /\ Failed) =>
    /\ events = << >>
    /\ Undisturbed => val = cmd.val0

\* C8, amended: a click or type that fails with index-not-found or
\* wrong-element-kind, or with an error on a request issued before the
\* pointer press (index check, auto-index scan, index resolution), has given
\* the page no input event and changed no value, scroll position or focus;
\* its only effect is the stamps of an auto-index scan.
EarlyFailureLeavesNoEffect ==
  (/\ Interacting /\ Finished /\ Failed
   /\ cmd.out = "Error" =>
        cmd.failedAt \in {"notarget", "noconnect", "ensure", "autoscan", "resolve"}) =>
    /\ events = << >>
    /\ Traffic(InputPcs) = << >>
    /\ Undisturbed =>
         (val = cmd.val0 /\ scroll = cmd.scroll0 /\ focus = cmd.focus0)

EarlyFailureLeavesNoEffectWitness ==
  /\ cmd.name = "type" /\ Finished /\ cmd.out = "wrongkind" /\ Undisturbed
  /\ cmd.scanned
  /\ Stamped # {}
  /\ scroll # ScrollIntoView(cmd.target)

\* C9: a successful click dispatches exactly one pointer press and then one
\* pointer release, both at the centre of the resolved node's box measured
\* after scrolling it into view, the release sent after the press was
\* acknowledged, and no other input event.
ClickDispatch ==
  (cmd.name = "click" /\ cmd.out = "Clicked") =>
    /\ cmd.target # NoNode
    /\ Len(events) = 2
    /\ events[1] = [type |-> "mousePressed", x |-> cmd.centre.x, y |-> cmd.centre.y,
                    key |-> "", target |-> NoNode]
    /\ events[2] = [events[1] EXCEPT !.type = "mouseReleased"]
    /\ LET t == Traffic(InputPcs)
       IN /\ Len(t) = 4
          /\ <<t[1].dir, t[1].what>> = <<"send", "press">>
          /\ <<t[2].dir, t[2].what, t[2].ok, t[2].id>> = <<"reply", "press", TRUE, t[1].id>>
          /\ <<t[3].dir, t[3].what>> = <<"send", "release">>
          /\ <<t[4].dir, t[4].what, t[4].ok, t[4].id>> = <<"reply", "release", TRUE, t[3].id>>

ClickDispatchWitness ==
  /\ cmd.name = "click" /\ Finished /\ cmd.out = "Clicked"
  /\ cmd.scroll0 # scroll
  /\ ~cmd.scanned

ErrorsAreOutput ==
  (Finished /\ (cmd.failedAt = "notarget"
                \/ cmd.out \in {"selnotfound", "noinput", "notfound", "wrongkind",
                                "evalError", "filenotfound"})) =>
    (cmd.exit = 0 /\ cmd.out # "Error")

\* C16: a command that ends has reported selector-not-found,
\* index-not-found, wrong-element-kind, a throwing evaluation and
\* file-not-found as its output with exit status 0; a missing target, like a
\* session that does not open and a rejected request, ends it with the
\* error message and exit status 1; nothing else exits non-zero.
ErrorPropagation ==
  Finished =>
    /\ cmd.exit \in {0, 1}
    /\ (cmd.exit = 1) <=> (cmd.failedAt # "")
    /\ (cmd.exit = 1) => (cmd.out = "Error")
    /\ (cmd.failedAt = "notarget") =>
          (cmd.exit = 1 /\ cmd.opened = 0 /\ wire = << >>)
    /\ (cmd.name = "upload" /\ cmd.text # Empty /\ ~existsSync(AbsPath(cmd.text))) =>
          (cmd.out = "filenotfound" /\ cmd.exit = 0 /\ cmd.opened = 0)
    /\ (cmd.name = "eval" /\ Throws(cmd.sel) /\ cmd.failedAt = "") =>
          (cmd.out = "evalError" /\ cmd.exit = 0)
    /\ (Interacting /\ cmd.resolved /\ cmd.target = NoNode) =>
          (cmd.out = "notfound" /\ cmd.exit = 0)
    /\ (cmd.name = "type" /\ cmd.resolved /\ cmd.target # NoNode /\ ~Typeable(cmd.target)) =>
          (cmd.out = "wrongkind" /\ cmd.exit = 0)
    /\ (cmd.name = "elements" /\ cmd.failedAt = "" /\ ScanRoot(cmd.sel)[1] = "none") =>
          (cmd.out = "selnotfound" /\ cmd.exit = 0)
    /\ (cmd.name = "upload" /\ cmd.opened = 1 /\ cmd.failedAt = ""
           /\ \A n \in Nodes : ~(InDocument(n) /\ CssMatches(cmd.sel, n)
                                  /\ \A a \in Ancestors[n] \cup {n} : DOM[a].via = "light")) =>
          (cmd.out = "noinput" /\ cmd.exit = 0)

ErrorPropagationWitness ==
  /\ Finished
  /\ cmd.name = "tab"
  /\ cmd.arg = 1
  /\ cmd.failedAt = "notarget"
  /\ cmd.out = "Error"
  /\ cmd.exit = 1

\* C17: a command opens at most one session; while the handler runs the
\* session is open, and when the command has ended on any path the session
\* it opened has been closed exactly once.
SessionClosedOnce ==
  /\ cmd.opened \in {0, 1}
  /\ cmd.closed <= cmd.opened
  /\ (cmd.pc \in RequestPcs \cup {"wait", "finally"}) => (cmd.opened = 1 /\ cmd.closed = 0)
  /\ Finished => (cmd.closed = cmd.opened)
  /\ wire # << >> => cmd.opened = 1

SessionClosedOnceWitness ==
  /\ Finished
  /\ cmd.name = "upload"
  /\ cmd.failedAt = "setFiles"
  /\ cmd.exit = 1
  /\ cmd.opened = 1
  /\ cmd.closed = 1

\* The requests a handler may send one after the other, in program order.
ProgramOrder ==
  {<<"domEnable", "runtimeEnable">>, <<"runtimeEnable", "scan">>,
   <<"ensure", "autoscan">>, <<"ensure", "resolve">>, <<"autoscan", "resolve">>,
   <<"resolve", "press">>, <<"press", "release">>,
   <<"release", "select">>, <<"select", "bsDown">>, <<"bsDown", "bsUp">>,
   <<"bsUp", "insert">>, <<"release", "clear">>, <<"clear", "insert">>,
   <<"insert", "keyDown">>, <<"keyDown", "keyUp">>, <<"keyUp", "keyDown">>,
   <<"insert", "setter">>, <<"keyUp", "setter">>,
   <<"navigate", "pageEnable">>,
   <<"uploadEnable", "getDocument">>, <<"getDocument", "querySelector">>,
   <<"querySelector", "setFiles">>}

\* The requests and the acknowledgments on the wire.
Sends == SelectSeq(wire, LAMBDA m : m.dir = "send")

Acks == SelectSeq(wire, LAMBDA m : m.dir = "reply")

\* C18: the requests of a command go out in program order under
\* consecutive ids, and a request goes out only when every earlier one has
\* been acknowledged: at most one is outstanding.
SequentialRequests ==
  /\ Len(Sends) - Len(Acks) = (IF cmd.pc \in RequestPcs /\ cmd.inflight THEN 1 ELSE 0)
  /\ \A i \in 1..Len(wire) :
       wire[i].dir = "send" =>
         \A j \in 1..(i - 1) :
           wire[j].dir = "send" =>
             \E k \in (j + 1)..(i - 1) : wire[k].dir = "reply" /\ wire[k].id = wire[j].id
  /\ \A i \in 1..Len(Sends) :
       /\ Sends[i].id = i
       /\ i = 1 => Sends[i].what = FirstPc(cmd.name)
       /\ i > 1 => <<Sends[i - 1].what, Sends[i].what>> \in ProgramOrder
  /\ \A i \in 1..Len(Acks) : Acks[i].id = i /\ Acks[i].what = Sends[i].what

SequentialRequestsWitness ==
  /\ Finished
  /\ cmd.name = "type"
  /\ cmd.out = "Typed"
  /\ Len(Sends) = 11
  /\ Len(Acks) = 11
  /\ \E i \in 1..Len(Acks) : ~Acks[i].ok

\* The message at position i of the wire is the first reply to a request
\* sent before it.
FirstAnswer(i) ==
  /\ wire[i].dir = "reply"
  /\ \E j \in 1..(i - 1) :
       /\ wire[j].dir = "send"
       /\ wire[j].id = wire[i].id
       /\ \A k \in (j + 1)..(i - 1) : ~(wire[k].dir = "reply" /\ wire[k].id = wire[i].id)

\* C19: on one session the requests carry distinct ids; a request is
\* settled at most once, by the first reply that carries its id, resolved
\* or rejected as that reply says; event notifications and replies with
\* an id that is unknown or already settled settle nothing.
RequestsCorrelated ==
  /\ \A i, j \in 1..Len(wire) :
       (wire[i].dir = "send" /\ wire[j].dir = "send" /\ wire[i].id = wire[j].id) => i = j
  /\ \A a, b \in 1..Len(cmd.settled) :
       cmd.settled[a].id = cmd.settled[b].id => a = b
  /\ \A a \in 1..Len(cmd.settled) :
       /\ cmd.settled[a].by \in 1..Len(wire)
       /\ FirstAnswer(cmd.settled[a].by)
       /\ wire[cmd.settled[a].by].id = cmd.settled[a].id
       /\ cmd.settled[a].how = (IF wire[cmd.settled[a].by].ok THEN "resolved" ELSE "rejected")
  /\ \A i \in 1..Len(wire) :
       FirstAnswer(i) => \E a \in 1..Len(cmd.settled) : cmd.settled[a].by = i
  /\ cmd.pending = {wire[i].id : i \in {k \in 1..Len(wire) : wire[k].dir = "send"}}
                      \ {cmd.settled[a].id : a \in 1..Len(cmd.settled)}

\* Replies out of order, the second request answered twice.
RequestsCorrelatedWitness ==
  /\ Len(wire) = 5
  /\ wire[3] = [dir |-> "reply", id |-> 2, what |-> "request", ok |-> TRUE]
  /\ wire[4] = [dir |-> "reply", id |-> 2, what |-> "request", ok |-> FALSE]
  /\ wire[5] = [dir |-> "reply", id |-> 1, what |-> "request", ok |-> FALSE]
  /\ cmd.settled = << [id |-> 2, by |-> 3, how |-> "resolved"],
                      [id |-> 1, by |-> 5, how |-> "rejected"] >>
  /\ cmd.pending = {}

\* C20: once the open command waits, its navigate and enable requests
\* acknowledged, it ends with the navigation confirmation and exit status
\* 0, woken by the load event or by the timer.
OpenTerminates ==
  (cmd.name = "open" /\ cmd.pc = "wait") ~>
    (Finished /\ cmd.name = "open" /\ cmd.out = "Navigated" /\ cmd.exit = 0
       /\ cmd.woke \in {"load", "timeout"})

\* The load ended before the wait began, and the timer ended the wait.
OpenTerminatesWitness ==
  /\ Finished
  /\ cmd.name = "open"
  /\ cmd.early
  /\ cmd.woke = "timeout"
  /\ cmd.out = "Navigated"
  /\ cmd.exit = 0

(***************************************************************************)
(* Properties of cmdUpload.                                                *)
(***************************************************************************)
\* The node DOM.querySelector answers for the selector of the command.
Matched == QuerySelector(DocRoot, LAMBDA n : CssMatches(cmd.sel, n))

\* The command left the stamps, the lookup hook and the values as it found
\* them, except the value of node n.
OnlyTouched(n) ==
  /\ stamp = cmd.stamp0
  /\ hook = cmd.hook0
  /\ \A m \in Editable : m # n => val[m] = cmd.val0[m]

\* C21 as stated: whenever the file exists and the selector matches a node,
\* upload injects the absolute path into the matched node (requests the
\* browser rejects on a file input aside).
UploadInjectsIntoMatch ==
  (/\ Finished
   /\ cmd.name = "upload"
   /\ cmd.nodeId # NoNode
   /\ cmd.failedAt = "setFiles" => ~IsFileInput(cmd.nodeId)) =>
    cmd.injected = << [node |-> cmd.nodeId, files |-> <<cmd.absPath>>] >>

\* C21: upload reports file-not-found before it opens a session, whatever
\* the selector matches; it reports no-matching-input and injects nothing
\* when the selector matches no node of the light tree; when the matched
\* node is a file input and the request is accepted it injects exactly one
\* absolute path into exactly that input; when the matched node is not a
\* file input the request is rejected and nothing is injected.  It sends
\* no script and leaves every stamp as it was.
UploadOutcome ==
  (Finished /\ cmd.name = "upload") =>
    /\ cmd.out \in {"usage", "filenotfound", "noinput", "Uploaded", "Error"}
    /\ OnlyTouched(IF cmd.out = "Uploaded" THEN cmd.nodeId ELSE NoNode)
    /\ \A i \in 1..Len(wire) : Method(wire[i].what) # "Runtime.evaluate"
    /\ (cmd.text # Empty /\ ~existsSync(AbsPath(cmd.text))) =>
          (cmd.out = "filenotfound" /\ cmd.opened = 0 /\ wire = << >>)
    /\ (cmd.out = "noinput") <=>
          (cmd.failedAt = "" /\ cmd.opened = 1 /\ Matched = NoNode)
    /\ (cmd.out # "Uploaded") => (cmd.injected = << >> /\ events = << >>)
    /\ (cmd.out = "Uploaded") <=>
          (cmd.failedAt = "" /\ cmd.opened = 1 /\ Matched # NoNode)
    /\ (cmd.out = "Uploaded") =>
          /\ cmd.nodeId = Matched
          /\ IsFileInput(cmd.nodeId)
          /\ cmd.injected = << [node |-> cmd.nodeId, files |-> <<cmd.absPath>>] >>
          /\ StartsWith(cmd.absPath, <<"/">>)
          /\ existsSync(cmd.absPath)
          /\ val[cmd.nodeId] = FakePath(cmd.absPath)
    /\ (cmd.nodeId # NoNode /\ ~IsFileInput(cmd.nodeId)) =>
          (cmd.out \in {"Error"} /\ cmd.exit = 1)

UploadOutcomeWitness ==
  /\ Finished
  /\ cmd.name = "upload"
  /\ cmd.text = <<"f">>
  /\ cmd.sel = NoSelector
  /\ cmd.out = "Uploaded"
  /\ cmd.injected = << [node |-> 15, files |-> << <<"/", "f">> >>] >>
  /\ \E n \in Nodes : stamp[n] # NoStamp

(***************************************************************************)
(* Properties of the coordinate commands.                                  *)
(***************************************************************************)
ByCoordinates == cmd.name \in {"click-xy", "hover-xy", "drag-xy"}

\* C22: a coordinate command sends pointer events only, no script, and at
\* every moment the stamps and the lookup hook are as the command found
\* them, whether stamps exist or not.
CoordinatesLeaveStamps ==
  ByCoordinates =>
    /\ stamp = cmd.stamp0
    /\ hook = cmd.hook0
    /\ \A i \in 1..Len(wire) : Method(wire[i].what) = "Input.dispatchMouseEvent"

CoordinatesLeaveStampsWitness ==
  /\ Finished
  /\ cmd.name = "drag-xy"
  /\ cmd.out = "Dragged"
  /\ stamp[3] = 0
  /\ stamp[15] = 1
  /\ focus = 3

\* The i-th event of a drag from (xy[1], xy[2]) to (xy[3], xy[4]), in
\* units of 1/Steps pixel: move to the start, press there, Steps moves, the
\* k-th at start + (end - start) * k / Steps, release at the end.
DragEvent(i) ==
  CASE i = 1 -> [type |-> "mouseMoved", x |-> cmd.xy[1] * Steps, y |-> cmd.xy[2] * Steps,
                 button |-> "none", clickCount |-> 0]
    [] i = 2 -> [type |-> "mousePressed", x |-> cmd.xy[1] * Steps, y |-> cmd.xy[2] * Steps,
                 button |-> "left", clickCount |-> 1]
    [] i \in 3..(Steps + 2) ->
                [type |-> "mouseMoved",
                 x |-> cmd.xy[1] * Steps + (cmd.xy[3] - cmd.xy[1]) * (i - 2),
                 y |-> cmd.xy[2] * Steps + (cmd.xy[4] - cmd.xy[2]) * (i - 2),
                 button |-> "left", clickCount |-> 0]
    [] i = Steps + 3 ->
                [type |-> "mouseReleased", x |-> cmd.xy[3] * Steps, y |-> cmd.xy[4] * Steps,
                 button |-> "left", clickCount |-> 1]

\* C27: the events of drag-xy are, in order, one move to S, one press at S,
\* ten moves of which the k-th is at S + (E - S) * k / 10 and the last at E,
\* and one release at E; a drag that reports success dispatched them all.
DragGesture ==
  cmd.name = "drag-xy" =>
    /\ Len(events) <= Steps + 3
    /\ \A i \in 1..Len(events) : events[i] = DragEvent(i)
    /\ Len(events) >= Steps + 2 =>
         (events[Steps + 2].x = cmd.xy[3] * Steps /\ events[Steps + 2].y = cmd.xy[4] * Steps)
    /\ cmd.out = "Dragged" => Len(events) = Steps + 3
    /\ Len(SelectSeq(wire, LAMBDA m : m.dir = "reply" /\ m.ok)) = Len(events)

\* A drag whose intermediate points are no whole pixels.
DragGestureWitness ==
  /\ Finished
  /\ cmd.name = "drag-xy"
  /\ cmd.out = "Dragged"
  /\ cmd.xy = <<5, 30, 30, 5>>
  /\ Len(events) = 13
  /\ events[3].x = 75
  /\ events[3].y = 275

\* C28: click-xy given a coordinate that is missing or is not a number
\* returns its message without opening a session and dispatches no event;
\* given numbers it dispatches one move, then one press and release at the
\* point, twice with --double, with the right button iff --right.
ClickXYAsStated ==
  cmd.name = "click-xy" =>
    IF RefusalStrict("click-xy", Given("click-xy", cmd.argv)) # ""
    THEN /\ cmd.opened = 0
         /\ wire = << >>
         /\ events = << >>
         /\ (Finished /\ cmd.failedAt = "") => cmd.out \in {"usage", "notnumber"}
    ELSE (Finished /\ cmd.failedAt = "") =>
           /\ Len(events) = (IF cmd.double THEN 5 ELSE 3)
           /\ events[1].type = "mouseMoved"
           /\ \A i \in 2..Len(events) :
                /\ events[i].type = (IF i % 2 = 0 THEN "mousePressed" ELSE "mouseReleased")
                /\ events[i].button = (IF HasFlag(cmd.argv, RightFlag) THEN "right" ELSE "left")
           /\ \A i \in 1..Len(events) :
                /\ events[i].x = cmd.xy[1] * Steps
                /\ events[i].y = cmd.xy[2] * Steps

(***************************************************************************)
(* More properties of the scan (steps of SpecScan that leave hist.fresh    *)
(* set are scans; hist.last.sel is the selector of the scan).              *)
(***************************************************************************)
\* The selector is given and no element of the document outside the shadow
\* roots matches it.
NoMatch(sel) ==
  /\ sel # NoSelector
  /\ \A n \in Nodes :
       ~(/\ InDocument(n)
         /\ SelectorMatches(sel, n)
         /\ \A a \in Ancestors[n] \cup {n} : DOM[a].via = "light")

\* C23: a scan whose scoping selector matches no node returns the
\* not-found signal and no descriptor, and writes no stamp: every node of
\* the document is left without a stamp and no other node changes; the
\* signal is returned in no other case.
SelectorMiss ==
  [][hist'.fresh =>
       /\ hist'.last.error <=> NoMatch(hist'.last.sel)
       /\ hist'.last.error =>
            /\ hist'.last.list = << >>
            /\ hist'.last.nodes = << >>
            /\ \A n \in Nodes :
                 stamp'[n] = (IF InDocument(n) THEN NoStamp ELSE stamp[n])]_vars

\* A scan by a selector that matches nothing, after a scan that stamped.
SelectorMissWitness ==
  /\ hist.fresh
  /\ hist.last.error
  /\ hist.last.sel = "nav"
  /\ hist.prev.valid
  /\ hist.prev.nodes # << >>
  /\ \A n \in Nodes : stamp[n] = NoStamp

(***************************************************************************)
(* Properties of cmdType (events holds what the page was sent since the    *)
(* command began, wire the requests and their acknowledgments).            *)
(***************************************************************************)
\* The command has ended having reported the text as typed.
Typed == Finished /\ cmd.name = "type" /\ cmd.out = "Typed"

\* The events that carry text into the page.
CarriesText(e) == e.type = "insertText" \/ (e.type = "keyDown" /\ e.key # "Backspace")

\* C24: a successful type presses and releases the pointer on the target,
\* clears, inserts the text and then, on a native form control (an input or
\* a textarea that takes text), assigns through the setter and dispatches
\* an input and then a change notification on it; on an editable container
\* no notification is dispatched; text enters only after the click.
TypeStepsAsStated ==
  (Typed /\ cmd.target # NoNode /\ TakesText(cmd.target)) =>
    /\ Len(events) >= 3
    /\ events[1].type = "mousePressed"
    /\ events[2].type = "mouseReleased"
    /\ \E i \in 3..Len(events) : CarriesText(events[i])
    /\ IF cmd.info.ce
       THEN \A i \in 1..Len(events) : events[i].target = NoNode
       ELSE /\ events[Len(events) - 1] = DomEvent("input", cmd.target)
            /\ events[Len(events)] = DomEvent("change", cmd.target)
            /\ val[cmd.target] = cmd.text

\* The key events of the fallback loop, in the order dispatched.
PerCharacter == SelectSeq(events, LAMBDA e : e.type \in {"keyDown", "keyUp"} /\ e.key # "Backspace")

\* One keyDown then one keyUp for each character of t, in order.
Spelled(t) ==
  [i \in 1..(2 * Len(t)) |->
     IF i % 2 = 1 THEN KeyEvent("keyDown", t[(i + 1) \div 2])
     ELSE KeyEvent("keyUp", t[i \div 2])]

\* Input.insertText was answered with an error.
InsertionRejected ==
  \E i \in 1..Len(wire) : wire[i].dir = "reply" /\ wire[i].what = "insert" /\ ~wire[i].ok

\* C25: a rejected Input.insertText does not fail the command: the key
\* events dispatched are a keyDown then a keyUp per character of the text,
\* in order, all of them once the command reports success; when the
\* insertion is accepted no per-character key event is dispatched.
FallbackPerCharacter ==
  cmd.name = "type" =>
    /\ cmd.failedAt # "insert"
    /\ IF InsertionRejected
       THEN /\ Len(PerCharacter) <= 2 * Len(cmd.text)
            /\ PerCharacter = SubSeq(Spelled(cmd.text), 1, Len(PerCharacter))
            /\ \A i \in 1..Len(events) : events[i].type # "insertText"
            /\ Typed => PerCharacter = Spelled(cmd.text)
            /\ (Finished /\ ~Typed) => cmd.failedAt \in {"keyDown", "keyUp", "setter"}
       ELSE PerCharacter = << >>

\* A type that ended well after its insertion was rejected.
FallbackPerCharacterWitness ==
  /\ Typed
  /\ InsertionRejected
  /\ cmd.text = <<"h", "i">>
  /\ Len(PerCharacter) = 4
  /\ val[cmd.target] = <<"h", "i">>

\* v is the beginning of t.
IsPrefix(v, t) == Len(v) <= Len(t) /\ v = SubSeq(t, 1, Len(v))

\* The requests sent so far, by control position.
Sent(pc) == \E i \in 1..Len(wire) : wire[i].dir = "send" /\ wire[i].what = pc

\* C26: after a successful type of t on a native input or textarea the
\* value of the control is exactly t, whatever it held before.
TypedValueAsStated ==
  (Typed /\ cmd.target # NoNode /\ DOM[cmd.target].tag \in {"input", "textarea"}
         /\ ~cmd.info.ce)
    => val[cmd.target] = cmd.text

\* C26, as it holds: on an input that holds text, a textarea or an
\* editable container the old content is gone once the clearing is
\* acknowledged and the value ends as exactly t; an editable container is
\* emptied through the selection and gets no setter request; a file input
\* ends empty although the command reports success.
TypedValue ==
  (cmd.name = "type" /\ cmd.target \in Editable) =>
    /\ (TakesText(cmd.target) /\ (Sent("insert") \/ Typed))
         => IsPrefix(val[cmd.target], cmd.text)
    /\ (TakesText(cmd.target) /\ Typed) => val[cmd.target] = cmd.text
    /\ cmd.info.ce => (~Sent("setter") /\ ~Sent("clear"))
    /\ (cmd.info.ce /\ Sent("insert")) => (Sent("select") /\ Sent("bsDown") /\ Sent("bsUp"))
    /\ (IsFileInput(cmd.target) /\ Typed) => val[cmd.target] = Empty

\* A type over earlier content, on a text control and on a container.
TypedValueWitness ==
  /\ Typed
  /\ cmd.target \in Editable
  /\ TakesText(cmd.target)
  /\ cmd.val0[cmd.target] = <<"h", "i">>
  /\ val[cmd.target] = <<"h", "i">>

(***************************************************************************)
(* The resolved dialog and the visibility rule of the scan.                *)
(***************************************************************************)
\* The rendered nodes of the document, outside the shadow roots, with role
\* dialog, role presentation or aria-modal true.
Rendered(n) ==
  /\ InDocument(n)
  /\ \A a \in Ancestors[n] \cup {n} : DOM[a].via = "light"
  /\ DOM[n].offsetParent \/ DOM[n].fixed

Overlays ==
  {n \in Nodes : Rendered(n) /\ (DOM[n].role \in {"dialog", "presentation"} \/ DOM[n].ariaModal)}

\* The node of S that comes last in the order order.
LastOf(S, order) == CHOOSE n \in S : \A m \in S : Pos(order, m) <= Pos(order, n)

ResolvedIn(reals, layers, order) ==
  IF reals # {} THEN LastOf(reals, order)
  ELSE IF layers # {} THEN LastOf(layers, order)
  ELSE NoNode

\* The dialog the claim describes.
Resolved ==
  ResolvedIn({n \in Overlays : DOM[n].role = "dialog" \/ DOM[n].ariaModal},
             {n \in Overlays : DOM[n].role = "presentation"},
             QueryAll(DocRoot))

DialogResolvedIn(top, expected, nodes, found) ==
  /\ top = expected
  /\ nodes = Survivors(expected, SortByDialog(expected, found), {})
  /\ expected = NoNode =>
       /\ Overlays = {}
       /\ \A i \in 1..Len(nodes) : Scope(top, nodes[i]) = "page"
       /\ \A i, j \in 1..Len(nodes) : i < j => Pos(found, nodes[i]) < Pos(found, nodes[j])

\* C29: the dialog a scan resolves is the last rendered node, in document
\* order, with role dialog or aria-modal true; without one, the last
\* rendered node with role presentation; without any rendered candidate
\* there is none, every entry is in page scope and the entries keep the
\* order of the walk.
DialogResolved ==
  (hist.fresh /\ ~hist.last.error) =>
    DialogResolvedIn(TopDialog, Resolved, hist.last.nodes, deepQueryAll(ScanRoot(hist.last.sel)))

\* A scan of a page where a presentation layer follows a dialog: the
\* dialog is resolved, its button is listed first, and the button of the
\* layer is taken for a duplicate of the page's.
DialogResolvedWitness ==
  /\ hist.fresh
  /\ ~hist.last.error
  /\ present[19] /\ present[1]
  /\ TopDialog = 1
  /\ deepQueryAll(DocRoot) = <<2, 3, 20>>
  /\ hist.last.nodes = <<2, 3>>

\* n has no rendered box and is neither the body nor positioned fixed.
Unrendered(n) == ~DOM[n].offsetParent /\ DOM[n].tag # "body" /\ ~DOM[n].fixed

\* A rendered candidate before position k of sorted has the key of sorted[k].
KeyTaken(top, sorted, k) ==
  \E j \in 1..(k - 1) :
    /\ ~Unrendered(sorted[j])
    /\ DedupKey(top, sorted[j]) = DedupKey(top, sorted[k])

VisibilityRuleIn(top, nodes, sorted) ==
  \A k \in 1..Len(sorted) :
    IF Unrendered(sorted[k]) \/ KeyTaken(top, sorted, k)
    THEN /\ sorted[k] \notin Range(nodes)
         /\ stamp[sorted[k]] = NoStamp
    ELSE \E i \in 1..Len(nodes) : nodes[i] = sorted[k] /\ stamp[sorted[k]] = i - 1

\* C30: a candidate with no rendered box that is neither the body nor
\* positioned fixed is never listed and never stamped; every other
\* candidate is listed and stamped, except one whose de-duplication key an
\* earlier listed candidate of the sorted order has.
VisibilityRule ==
  (hist.fresh /\ ~hist.last.error) =>
    VisibilityRuleIn(TopDialog, hist.last.nodes,
                     SortByDialog(TopDialog, deepQueryAll(ScanRoot(hist.last.sel))))

\* A scan of a page with a button that is not rendered, a body that is a
\* candidate and a fixed button without offset parent.
VisibilityRuleWitness ==
  /\ hist.fresh
  /\ deepQueryAll(DocRoot) = <<3, 8, 17, 18>>
  /\ hist.last.nodes = <<3, 17, 18>>
  /\ stamp[8] = NoStamp
  /\ stamp[18] = 2

(***************************************************************************)
(* What click reports, and the scope of controls in shadow roots.          *)
(***************************************************************************)
\* C31: the confirmation of a successful click on an index of the latest
\* scan names the label and the description the scan listed at that index.
ClickNamesListing ==
  (Finished /\ cmd.name = "click" /\ cmd.out = "Clicked" /\ cmd.byLatest) =>
    /\ cmd.info.label = hist.last.list[cmd.arg + 1].label
    /\ cmd.info.desc = hist.last.list[cmd.arg + 1].desc

\* n lies inside d, shadow roots included.
Within(d, n) == d # NoNode /\ d \in Ancestors[n]

ModalThroughShadowIn(top, nodes, found) ==
  /\ \A i, j \in 1..Len(nodes) :
       (Within(top, nodes[j]) /\ ~Within(top, nodes[i]) /\ nodes[i] # top) => j < i
  /\ \A n \in Range(found) :
       (/\ Within(top, n)
        /\ ~Unrendered(n)
        /\ \A m \in Range(found) : (m # n /\ Within(top, m)) => ~SameLook(m, n))
         => n \in Range(nodes)

\* C32: a control in a shadow root hosted inside the resolved dialog is
\* treated as inside the dialog: it is listed before the page-level
\* controls, and a page-level control of the same look does not make it a
\* duplicate.
ModalThroughShadow ==
  (hist.fresh /\ ~hist.last.error) =>
    ModalThroughShadowIn(TopDialog, hist.last.nodes, deepQueryAll(ScanRoot(hist.last.sel)))

(***************************************************************************)
(* More properties of click and type and the stamps they find.             *)
(***************************************************************************)
\* C33: click and type re-scan only when no node of the document, shadow
\* roots included, carries a stamp; when the check is made with a stamped
\* node anywhere, no scan is run and the stamps are left as they were.
RescanOnlyWhenUnstamped ==
  (Interacting /\ cmd.checked /\ ~cmd.unstamped) =>
    /\ cmd.pc # "autoscan"
    /\ ~cmd.scanned
    /\ Undisturbed => stamp = cmd.stamp0

\* The stamps are those of a scan of the whole document listing nodes.
FullIndex(nodes, expected) ==
  /\ nodes = expected
  /\ \A n \in Nodes :
       stamp[n] = (IF \E i \in 1..Len(nodes) : nodes[i] = n THEN Pos(nodes, n) - 1
                   ELSE IF InDocument(n) THEN NoStamp ELSE stamp[n])

\* C34: when a scoped scan has returned its error, no node of the document
\* carries a stamp and no index resolves; a click or type that begins then
\* (the page not having changed since) finds no stamp, runs the scan
\* of the whole document before it looks its index up (unless that request
\* is rejected, which ends the command), and dispatches nothing before
\* that scan.
MissForcesIndex ==
  /\ (hist.fresh /\ hist.last.error) =>
       /\ Stamped = {}
       /\ \A i \in Indices : Resolve(i) = NoNode
  /\ (Interacting /\ cmd.afterMiss) =>
       /\ cmd.checked =>
            /\ cmd.unstamped
            /\ cmd.pc = "autoscan" \/ cmd.scanned \/ cmd.failedAt = "autoscan"
       /\ (cmd.resolved \/ events # << >>) => cmd.scanned
       /\ (cmd.scanned /\ hist.fresh) =>
            /\ hist.last.sel = NoSelector
            /\ ~hist.last.error
            /\ FullIndex(hist.last.nodes,
                         Survivors(TopDialog, SortByDialog(TopDialog, deepQueryAll(DocRoot)), {}))

\* A click after a scan by a selector that matched nothing on a page that
\* carried stamps: the scan left none, and the click is about to index the
\* page.
MissForcesIndexWitness ==
  /\ cmd.name = "click"
  /\ cmd.afterMiss
  /\ cmd.pc = "autoscan"
  /\ hist.fresh /\ hist.last.error
  /\ hist.wiped
  /\ Stamped = {}

\* C35: within one type command the lookup script, the clearing script and
\* the setter script resolve the index to the same node, whatever the page
\* does between them; a script that finds no node acts on none, and the
\* command reports success all the same.
TypeStepsSameNode ==
  (cmd.name = "type" /\ cmd.resolved /\ cmd.target # NoNode) =>
    /\ cmd.clearedOn \in {NoNode, cmd.target}
    /\ cmd.setOn \in {NoNode, cmd.target}
    /\ \A i \in 1..Len(events) : events[i].target \in {NoNode, cmd.target}
    /\ (Finished /\ cmd.failedAt = "" /\ cmd.out # "wrongkind") => cmd.out = "Typed"

====
